---- MODULE Spec2Model ----
(***************************************************************************)
(* Camila, the WhatsApp course assistant: the message handler of app.js    *)
(* and of its later revision (src/unnamed/part_000), with the text         *)
(* utilities it relies on.                                                 *)
(*                                                                         *)
(* A text is a sequence of one-character strings; the character U+2026     *)
(* (horizontal ellipsis) is written "U+2026".  Both revisions of the       *)
(* program are modelled: `variant' says which file is running.  `call' is  *)
(* the last call of a text utility made on its own, with its arguments and *)
(* the value it returned (SpecUtil, SpecCtx); the handler leaves it alone. *)
(***************************************************************************)
EXTENDS Integers, Sequences, FiniteSets, TLC

VARIABLES variant, openai, cursos, sessions, handlers, call

vars == <<variant, openai, cursos, sessions, handlers, call>>

(***************************************************************************)
(* Bounds of the model.                                                    *)
(***************************************************************************)
MaxMsgs == 2
MaxTurns == 4
MaxLongMsgs == 2
MaxInFlight == 2
MaxBackendFailures == 1
MaxReplyFailures == 1

(***************************************************************************)
(* Characters.                                                             *)
(***************************************************************************)
UpperChars == <<"A", "B", "C", "D", "E", "F", "G", "H", "I", "J", "K", "L", "M", "N", "O", "P", "Q", "R", "S", "T", "U", "V", "W", "X", "Y", "Z", "Á", "É", "Í", "Ó", "Ú", "Ñ", "Ü">>
LowerChars == <<"a", "b", "c", "d", "e", "f", "g", "h", "i", "j", "k", "l", "m", "n", "o", "p", "q", "r", "s", "t", "u", "v", "w", "x", "y", "z", "á", "é", "í", "ó", "ú", "ñ", "ü">>
DigitChars == <<"0", "1", "2", "3", "4", "5", "6", "7", "8", "9">>

Range(s) == {s[i] : i \in DOMAIN s}

\* String.prototype.toLowerCase, on the characters it changes
LowerOf ==
    ("A" :> "a") @@ ("B" :> "b") @@ ("C" :> "c") @@ ("D" :> "d") @@ ("E" :> "e") @@ ("F" :> "f") @@ ("G" :> "g") @@ ("H" :> "h") @@
    ("I" :> "i") @@ ("J" :> "j") @@ ("K" :> "k") @@ ("L" :> "l") @@ ("M" :> "m") @@ ("N" :> "n") @@ ("O" :> "o") @@ ("P" :> "p") @@
    ("Q" :> "q") @@ ("R" :> "r") @@ ("S" :> "s") @@ ("T" :> "t") @@ ("U" :> "u") @@ ("V" :> "v") @@ ("W" :> "w") @@ ("X" :> "x") @@
    ("Y" :> "y") @@ ("Z" :> "z") @@ ("Á" :> "á") @@ ("É" :> "é") @@ ("Í" :> "í") @@ ("Ó" :> "ó") @@ ("Ú" :> "ú") @@ ("Ñ" :> "ñ") @@
    ("Ü" :> "ü")

\* .normalize("NFD") followed by the removal of U+0300..U+036F, on the
\* characters it changes
BaseOf ==
    ("á" :> "a") @@ ("é" :> "e") @@ ("í" :> "i") @@ ("ó" :> "o") @@ ("ú" :> "u") @@ ("ñ" :> "n") @@ ("ü" :> "u")

Letters == Range(UpperChars) \cup Range(LowerChars)
Digits == Range(DigitChars)
Spaces == {" ", "\t", "\n"}
WordChars == {UpperChars[i] : i \in 1..26} \cup {LowerChars[i] : i \in 1..26} \cup Digits \cup {"_"}

\* map[c] || c
Lookup(map, c) == IF c \in DOMAIN map THEN map[c] ELSE c

ToLowerChar(c) == Lookup(LowerOf, c)

StripMark(c) == Lookup(BaseOf, c)

\* \p{L}
IsLetter(c) == c \in Letters

\* \p{N}
IsNumber(c) == c \in Digits

\* \s
IsSpace(c) == c \in Spaces

\* \w (without the u flag): [A-Za-z0-9_]
IsWordChar(c) == c \in WordChars

toLowerCase(s) == [i \in DOMAIN s |-> ToLowerChar(s[i])]

(***************************************************************************)
(* Generic text helpers (String.prototype methods).                        *)
(***************************************************************************)
\* s.slice(i - 1): the text from position i on
From(s, i) == SubSeq(s, i, Len(s))

\* the literal lit occurs in s at position i
LitAt(s, i, lit) == i >= 1 /\ i + Len(lit) - 1 <= Len(s) /\ SubSeq(s, i, i + Len(lit) - 1) = lit

\* the same, ignoring case (the i flag); lit is written in lower case
LitAtI(s, i, lit) ==
    i >= 1 /\ i + Len(lit) - 1 <= Len(s) /\ toLowerCase(SubSeq(s, i, i + Len(lit) - 1)) = lit

\* q.includes(t)
Includes(q, t) == \E i \in 1..(Len(q) - Len(t) + 1) : LitAt(q, i, t)

\* the concatenation of pieces[lo..hi], a list of texts
RECURSIVE Flatten(_, _, _)
Flatten(pieces, lo, hi) ==
    IF lo > hi THEN <<>>
    ELSE IF lo = hi THEN pieces[lo]
    ELSE Flatten(pieces, lo, (lo + hi) \div 2) \o Flatten(pieces, (lo + hi) \div 2 + 1, hi)

Join(pieces) == Flatten(pieces, 1, Len(pieces))

\* the least position of a set of positions, or 0 when it is empty
MinOrZero(P) == IF P = {} THEN 0 ELSE CHOOSE j \in P : \A k \in P : j <= k

\* the greatest position of a set of positions, or 0 when it is empty
MaxOrZero(P) == 0 - MinOrZero({0 - j : j \in P})

\* .replace(/\s+/g, rep)
ReplaceSpaceRuns(s, rep) ==
    Join([i \in DOMAIN s |->
            IF ~IsSpace(s[i]) THEN <<s[i]>>
            ELSE IF i > 1 /\ IsSpace(s[i - 1]) THEN <<>>
            ELSE rep])

\* s from the first to the last of the positions P
Span(s, P) == IF P = {} THEN <<>> ELSE SubSeq(s, MinOrZero(P), MaxOrZero(P))

\* a faulty trim that returns its argument
noTrim(s) == s

\* .trim()
trim(s) == Span(s, {j \in DOMAIN s : ~IsSpace(s[j])})

\* the end of the token of s that starts at position a
TokenEnd(s, a) == MinOrZero({b \in a..Len(s) : b = Len(s) \/ s[b + 1] = " "})

\* .split(" ").filter(Boolean), as the set the callers build from it
Tokens(s) ==
    {SubSeq(s, a, TokenEnd(s, a)) : a \in {b \in DOMAIN s : s[b] # " " /\ (b = 1 \/ s[b - 1] = " ")}}

(***************************************************************************)
(* Utilities "Camila".                                                     *)
(***************************************************************************)
\* .replace(/[^\p{L}\p{N}\s]/gu, " ") on one character
KeepOrSpace(c) == IF IsLetter(c) \/ IsNumber(c) \/ IsSpace(c) THEN c ELSE " "

\* a faulty normalize: white space collapsed before the other characters
\* are replaced
normalizeLate(s) ==
    trim([i \in DOMAIN ReplaceSpaceRuns(s, <<" ">>) |->
            KeepOrSpace(StripMark(ToLowerChar(ReplaceSpaceRuns(s, <<" ">>)[i])))])

\* normalize: lower case, no diacritics, anything but letters, numbers and
\* white space becomes a space, white space collapsed, trimmed
normalize(s) ==
    trim(ReplaceSpaceRuns([i \in DOMAIN s |-> KeepOrSpace(StripMark(ToLowerChar(s[i])))], <<" ">>))

\* the replacement function of sanitize: map[ch] || ch
SanitizeChar(c) ==
    CASE c = "<" -> <<"&", "l", "t", ";">>
      [] c = ">" -> <<"&", "g", "t", ";">>
      [] c = "{" -> <<"&", "#", "1", "2", "3", ";">>
      [] c = "}" -> <<"&", "#", "1", "2", "5", ";">>
      [] OTHER -> <<c>>

sanitize(s) ==
    trim(ReplaceSpaceRuns(Join([i \in DOMAIN s |-> SanitizeChar(s[i])]), <<" ">>))

CLAMP_MAX == 1200

\* a faulty clamp that cuts from max characters on
clampFrom(s, max) == IF Len(s) >= max THEN SubSeq(s, 1, max) \o <<"U+2026">> ELSE s

clampTo(s, max) == IF Len(s) > max THEN SubSeq(s, 1, max) \o <<"U+2026">> ELSE s

clamp(s) == clampTo(s, CLAMP_MAX)

\* a faulty index: the intersection over the first set alone
JaccardOverFirst(A, B) ==
    IF A = {} \/ B = {} THEN <<0, 1>> ELSE <<Cardinality(A \cap B), Cardinality(A)>>

\* inter / union of two token sets, as the exact fraction <<numerator, denominator>>
JaccardOf(A, B) ==
    IF A = {} \/ B = {} THEN <<0, 1>> ELSE <<Cardinality(A \cap B), Cardinality(A \cup B)>>

jaccard(a, b) == JaccardOf(Tokens(normalize(a)), Tokens(normalize(b)))

\* x.score > y.score, on fractions
ScoreGreater(x, y) == x[1] * y[2] > y[1] * x[2]

\* Array.prototype.sort((x, y) => y.score - x.score): stable, by decreasing score
RECURSIVE InsertByScore(_, _)
InsertByScore(sorted, e) ==
    IF sorted = <<>> THEN <<e>>
    ELSE IF ScoreGreater(e.score, sorted[1].score)
         THEN <<e>> \o sorted
         ELSE <<sorted[1]>> \o InsertByScore(Tail(sorted), e)

RECURSIVE SortByScore(_, _)
SortByScore(list, n) ==
    IF n = 0 THEN <<>> ELSE InsertByScore(SortByScore(list, n - 1), list[n])

\* .map((c) => ({ id, titulo, score }))
ScoreAll(courses, q) ==
    [i \in DOMAIN courses |->
        [id |-> courses[i].id, titulo |-> courses[i].titulo, score |-> jaccard(courses[i].titulo, q)]]

\* .slice(0, k)
FirstK(list, k) == SubSeq(list, 1, IF Len(list) < k THEN Len(list) ELSE k)

SortedByScore(list) == SortByScore(list, Len(list))

\* a faulty topMatchesByTitle: the sort left out
topMatchesUnsorted(courses, query, k) == FirstK(ScoreAll(courses, normalize(query)), k)

topMatchesByTitle(courses, query, k) == FirstK(SortedByScore(ScoreAll(courses, normalize(query))), k)

TOP_K == 3

\* 0.72 and 0.55, in hundredths
DIRECT_J == 72
PARTIAL_J == 55
PARTIAL_INTER == 2

\* a faulty test with the first threshold alone
CloseEnoughDirect(inter, uni) == inter * 100 >= DIRECT_J * uni

\* a faulty threshold: j >= 0.5 accepted whatever the number of common tokens
CloseEnoughHalf(inter, uni) == inter * 2 >= uni

\* j >= 0.72 || (inter >= 2 && j >= 0.55), with j = inter / uni
CloseEnough(inter, uni) ==
    \/ inter * 100 >= DIRECT_J * uni
    \/ (inter >= PARTIAL_INTER /\ inter * 100 >= PARTIAL_J * uni)

\* isDirectTitleMention on the normalized query and title
DirectMention(q, t) ==
    IF q = <<>> \/ t = <<>> THEN FALSE
    ELSE IF Includes(q, t) THEN TRUE
    ELSE CloseEnough(Cardinality(Tokens(q) \cap Tokens(t)), Cardinality(Tokens(q) \cup Tokens(t)))

isDirectTitleMention(query, title) == DirectMention(normalize(query), normalize(title))

(***************************************************************************)
(* Enrollment states and the catalog.                                      *)
(***************************************************************************)
PROXIMO == <<"p", "r", "o", "x", "i", "m", "o">>
INSCRIPCION_ABIERTA == <<"i", "n", "s", "c", "r", "i", "p", "c", "i", "o", "n", "_", "a", "b", "i", "e", "r", "t", "a">>
ULTIMOS_CUPOS == <<"u", "l", "t", "i", "m", "o", "s", "_", "c", "u", "p", "o", "s">>
EN_CURSO == <<"e", "n", "_", "c", "u", "r", "s", "o">>
FINALIZADO == <<"f", "i", "n", "a", "l", "i", "z", "a", "d", "o">>
CUPO_COMPLETO == <<"c", "u", "p", "o", "_", "c", "o", "m", "p", "l", "e", "t", "o">>

\* s || "proximo"
OrProximo(s) == IF s = <<>> THEN PROXIMO ELSE s

\* normalizeEstado (part_000 only)
Canonical(v) ==
    IF v = <<"c", "u", "p", "o", "s", "_", "c", "o", "m", "p", "l", "e", "t", "o", "s">> \/ v = <<"c", "o", "m", "p", "l", "e", "t", "o">> THEN CUPO_COMPLETO
    ELSE IF v = <<"u", "l", "t", "i", "m", "o", "s", "_", "c", "u", "p", "o", "s">> \/ v = <<"u", "l", "t", "i", "m", "o", "s", "_", "_", "c", "u", "p", "o", "s">> \/ v = <<"u", "l", "t", "i", "m", "o", "s", "-", "c", "u", "p", "o", "s">>
         THEN ULTIMOS_CUPOS
    ELSE IF v = <<"e", "n", "_", "c", "u", "r", "s", "o">> \/ v = <<"e", "n">> \/ v = <<"e", "n", "-", "c", "u", "r", "s", "o">> THEN EN_CURSO
    ELSE IF v = <<"f", "i", "n", "a", "l", "i", "z", "a", "d", "o">> \/ v = <<"f", "i", "n", "a", "l", "i", "z", "a", "d", "o", "_">> THEN FINALIZADO
    ELSE v

normalizeEstado(s) == Canonical(ReplaceSpaceRuns(normalize(OrProximo(s)), <<"_">>))

\* the field estado of pickCourse, in each revision
PickEstado(v, raw) ==
    IF v = "app.js" THEN toLowerCase(OrProximo(raw)) ELSE normalizeEstado(OrProximo(raw))

\* pickCourse; resto is the serialized length of the fields the model leaves out
pickCourse(v, c) ==
    [id |-> c.id,
     titulo |-> sanitize(c.titulo),
     formulario |-> sanitize(c.formulario),
     estado |-> PickEstado(v, c.estado),
     resto |-> c.resto]

ELIGIBLE_STATES(v) ==
    IF v = "app.js" THEN {INSCRIPCION_ABIERTA, PROXIMO}
    ELSE {INSCRIPCION_ABIERTA, PROXIMO, ULTIMOS_CUPOS}

isEligible(v, c) == toLowerCase(OrProximo(c.estado)) \in ELIGIBLE_STATES(v)

\* a faulty cursosExhibibles: the filter left out
cursosSinFiltro(v, cs) == cs

\* cursos.filter(isEligible)
cursosExhibibles(v, cs) == SelectSeq(cs, LAMBDA c : isEligible(v, c))

MAX_CONTEXT_CHARS == 18000
MAX_CONTEXT_COURSES == 40

\* the length of JSON.stringify(list, null, 2): "[]" for an empty list, else the
\* items between "[\n" and "\n]", separated by ",\n"
RECURSIVE SumLen(_, _)
SumLen(list, n) ==
    IF n = 0 THEN 0
    ELSE list[n].resto + Len(list[n].titulo) + Len(list[n].formulario)
         + Len(list[n].estado) + SumLen(list, n - 1)

SerializedLen(list) ==
    IF list = <<>> THEN 2 ELSE 4 + SumLen(list, Len(list)) + 2 * (Len(list) - 1)

\* JSON.stringify(ex) when it fits, else JSON.stringify(ex.slice(0, 40))
Truncated(ex) ==
    IF SerializedLen(ex) > MAX_CONTEXT_CHARS THEN FirstK(ex, MAX_CONTEXT_COURSES) ELSE ex

\* contextoCursos, as the list of records whose serialization it is
contextoCursos(v, cs) == Truncated(cursosExhibibles(v, cs))

(***************************************************************************)
(* The regular expressions of the message handler.                         *)
(***************************************************************************)
\* the first position >= i of s holding c, or 0
IndexFrom(s, i, c) == MinOrZero({j \in i..Len(s) : s[j] = c})

\* the position j found from i on, or the position after the end of s when
\* nothing was found
OrEnd(s, i, j) == IF j # 0 THEN j ELSE IF i > Len(s) THEN i ELSE Len(s) + 1

\* the first position >= i of s that holds no white space (Len(s) + 1 if none)
SkipSpaces(s, i) == OrEnd(s, i, MinOrZero({k \in i..Len(s) : ~IsSpace(s[k])}))

\* the first position >= i of s that holds no letter (Len(s) + 1 if none)
SkipLetters(s, i) == OrEnd(s, i, MinOrZero({k \in i..Len(s) : ~IsLetter(s[k])}))

FOLLOW_UP_WORDS == {<<"l", "i", "n", "k">>, <<"i", "n", "s", "c", "r", "i", "b">>, <<"f", "o", "r", "m", "u", "l", "a", "r", "i", "o">>}

\* /\b(link|inscrib|formulario)\b/i.test(s)
followUpRE(s) ==
    \E w \in FOLLOW_UP_WORDS : \E i \in 1..Len(s) :
        /\ LitAtI(s, i, w)
        /\ (i = 1 \/ ~IsWordChar(s[i - 1]))
        /\ (i + Len(w) > Len(s) \/ ~IsWordChar(s[i + Len(w)]))

NoMatch == [end |-> 0, rep |-> <<>>]

\* https?:\/\/ at position i: the position after it, or 0
SchemeEnd(s, i, ci) ==
    IF ci
    THEN (IF LitAtI(s, i, <<"h", "t", "t", "p", "s", ":", "/", "/">>) THEN i + 8 ELSE IF LitAtI(s, i, <<"h", "t", "t", "p", ":", "/", "/">>) THEN i + 7 ELSE 0)
    ELSE (IF LitAt(s, i, <<"h", "t", "t", "p", "s", ":", "/", "/">>) THEN i + 8 ELSE IF LitAt(s, i, <<"h", "t", "t", "p", ":", "/", "/">>) THEN i + 7 ELSE 0)

\* (?:docs\.google\.com\/forms|forms\.gle)\/ at position a: the position after it, or 0
FormHostEnd(s, a) ==
    IF LitAtI(s, a, <<"d", "o", "c", "s", ".", "g", "o", "o", "g", "l", "e", ".", "c", "o", "m", "/", "f", "o", "r", "m", "s", "/">>) THEN a + 22
    ELSE IF LitAtI(s, a, <<"f", "o", "r", "m", "s", ".", "g", "l", "e", "/">>) THEN a + 10
    ELSE 0

\* <a\s+ at position i
AnchorOpensAt(s, i) == LitAtI(s, i, <<"<", "a">>) /\ i + 2 <= Len(s) /\ IsSpace(s[i + 2])

\* .*?> after the closing quote at q, with g the next ">"
FormClose(s, u, q, g) ==
    IF g = 0 THEN NoMatch
    ELSE IF \E k \in (q + 1)..(g - 1) : s[k] = "\n" THEN NoMatch
    ELSE [end |-> g + 1, rep |-> SubSeq(s, u, q - 1)]

\* [^"]+" from b on, with q the next quote
FormQuote(s, u, b, q) ==
    IF q = 0 \/ q = b THEN NoMatch ELSE FormClose(s, u, q, IndexFrom(s, q + 1, ">"))

\* the host and the path of the address that starts at u, the scheme ending at a
FormPath(s, u, b) == IF b = 0 THEN NoMatch ELSE FormQuote(s, u, b, IndexFrom(s, b, "\""))

FormHost(s, u, a) == IF a = 0 THEN NoMatch ELSE FormPath(s, u, FormHostEnd(s, a))

\* href=" at position h
FormHref(s, h) ==
    IF ~LitAtI(s, h, <<"h", "r", "e", "f", "=", "\"">>) THEN NoMatch ELSE FormHost(s, h + 6, SchemeEnd(s, h + 6, TRUE))

\* /<a\s+href="(https?:\/\/(?:docs\.google\.com\/forms|forms\.gle)\/[^"]+)".*?>/i
\* tried at position i: [end, rep] with rep the capture of group 1
FormAnchorAt(s, i) ==
    IF ~AnchorOpensAt(s, i) THEN NoMatch ELSE FormHref(s, SkipSpaces(s, i + 2))

\* ([^<]+)<\/strong> with j the next "<"
StrongClose(s, i, j) ==
    IF j = 0 \/ j = i + 8 \/ ~LitAtI(s, j, <<"<", "/", "s", "t", "r", "o", "n", "g", ">">>) THEN NoMatch
    ELSE [end |-> j + 9, rep |-> SubSeq(s, i + 8, j - 1)]

\* /<strong>([^<]+)<\/strong>/i tried at position i
StrongAt(s, i) ==
    IF ~LitAtI(s, i, <<"<", "s", "t", "r", "o", "n", "g", ">">>) THEN NoMatch ELSE StrongClose(s, i, IndexFrom(s, i + 8, "<"))

\* \*\* after the letters f..g-1
BoldDateClose(s, i, f, g) ==
    IF g > f /\ LitAt(s, g, <<"*", "*">>) THEN [end |-> g + 2, rep |-> SubSeq(s, i + 2, g - 1)]
    ELSE NoMatch

\* \p{L}+ from f on, after the white space that follows "de" at e
BoldDateMonth(s, i, e, f) ==
    IF f > e + 2 THEN BoldDateClose(s, i, f, SkipLetters(s, f)) ELSE NoMatch

\* de\s+ at e, after the white space that follows the digits ending before d
BoldDateDe(s, i, d, e) ==
    IF e > d /\ LitAtI(s, e, <<"d", "e">>) THEN BoldDateMonth(s, i, e, SkipSpaces(s, e + 2)) ELSE NoMatch

\* \s+ after the digits, which end before d
BoldDateDay(s, i, d) == BoldDateDe(s, i, d, SkipSpaces(s, d))

\* /\*\*(\d{1,2}\s+de\s+\p{L}+)\*\*/giu tried at position i; replaced by "$1"
BoldDateAt(s, i) ==
    IF ~(LitAt(s, i, <<"*", "*">>) /\ i + 2 <= Len(s) /\ IsNumber(s[i + 2])) THEN NoMatch
    ELSE BoldDateDay(s, i, IF i + 3 <= Len(s) /\ IsNumber(s[i + 3]) THEN i + 4 ELSE i + 3)

\* (.+?)\*\* with j the nearest closing "**" on the same line
BoldClose(s, i, j) ==
    IF j = 0 THEN NoMatch
    ELSE [end |-> j + 2, rep |-> <<"*">> \o SubSeq(s, i + 2, j - 1) \o <<"*">>]

\* /\*\*(.+?)\*\*/g tried at position i; replaced by "*$1*"
BoldAt(s, i) ==
    IF ~LitAt(s, i, <<"*", "*">>) THEN NoMatch
    ELSE BoldClose(s, i, MinOrZero({j \in (i + 3)..Len(s) :
                                       /\ LitAt(s, j, <<"*", "*">>)
                                       /\ \A k \in (i + 2)..(j - 1) : s[k] # "\n"}))

\* [^\)]+\) with p the next ")"
MdClose(s, i, j, a, p) ==
    IF p = 0 \/ p = a THEN NoMatch
    ELSE [end |-> p + 1, rep |-> SubSeq(s, i + 1, j - 1) \o <<":", " ">> \o SubSeq(s, j + 2, p - 1)]

\* https?:\/\/ after "](", the scheme ending at a
MdUrl(s, i, j, a) == IF a = 0 THEN NoMatch ELSE MdClose(s, i, j, a, IndexFrom(s, a, ")"))

\* ([^\]]+)\]\( with j the next "]"
MdText(s, i, j) ==
    IF j = 0 \/ j = i + 1 \/ ~LitAt(s, j + 1, <<"(">>) THEN NoMatch
    ELSE MdUrl(s, i, j, SchemeEnd(s, j + 2, FALSE))

\* /\[([^\]]+)\]\((https?:\/\/[^\)]+)\)/g tried at position i; replaced by "$1: $2"
MdLinkAt(s, i) ==
    IF ~LitAt(s, i, <<"[">>) THEN NoMatch ELSE MdText(s, i, IndexFrom(s, i + 1, "]"))

\* ([^<]+)<\/a> with l the next "<"
AnchorText(s, u, q, g, l) ==
    IF l = 0 \/ l = g + 1 \/ ~LitAtI(s, l, <<"<", "/", "a", ">">>) THEN NoMatch
    ELSE [end |-> l + 4, rep |-> SubSeq(s, g + 1, l - 1) \o <<":", " ">> \o SubSeq(s, u, q - 1)]

\* [^>]*> with g the next ">"
AnchorTag(s, u, q, g) ==
    IF g = 0 THEN NoMatch ELSE AnchorText(s, u, q, g, IndexFrom(s, g + 1, "<"))

\* ([^"]+)" with q the next quote
AnchorQuote(s, u, q) ==
    IF q = 0 \/ q = u THEN NoMatch ELSE AnchorTag(s, u, q, IndexFrom(s, q + 1, ">"))

\* href=" at position h
AnchorHref(s, h) ==
    IF ~LitAtI(s, h, <<"h", "r", "e", "f", "=", "\"">>) THEN NoMatch ELSE AnchorQuote(s, h + 6, IndexFrom(s, h + 6, "\""))

\* /<a\s+href="([^"]+)"[^>]*>([^<]+)<\/a>/gi tried at position i; replaced by "txt: url"
AnchorAt(s, i) ==
    IF ~AnchorOpensAt(s, i) THEN NoMatch ELSE AnchorHref(s, SkipSpaces(s, i + 2))

\* [^>]+> with g the next ">"
TagClose(i, g) == IF g = 0 \/ g = i + 1 THEN NoMatch ELSE [end |-> g + 1, rep |-> <<>>]

\* /<\/?[^>]+>/g tried at position i; replaced by ""
TagAt(s, i) ==
    IF ~LitAt(s, i, <<"<">>) THEN NoMatch ELSE TagClose(i, IndexFrom(s, i + 1, ">"))

MatchAt(re, s, i) ==
    CASE re = "form" -> FormAnchorAt(s, i)
      [] re = "strong" -> StrongAt(s, i)
      [] re = "boldDate" -> BoldDateAt(s, i)
      [] re = "bold" -> BoldAt(s, i)
      [] re = "mdLink" -> MdLinkAt(s, i)
      [] re = "anchor" -> AnchorAt(s, i)
      [] re = "tag" -> TagAt(s, i)

\* the first character of every match of re
FirstChar(re) == IF re = "mdLink" THEN "[" ELSE IF re \in {"boldDate", "bold"} THEN "*" ELSE "<"

\* the start of the leftmost match of re in s at or after position i, or 0
NextMatch(re, s, i) ==
    MinOrZero({j \in i..Len(s) : s[j] = FirstChar(re) /\ MatchAt(re, s, j).end # 0})

\* the capture of the match of re that starts at j, as a list of at most one
\* text (empty when there is no match, j = 0)
CaptureAt(re, s, j) == IF j = 0 THEN <<>> ELSE <<MatchAt(re, s, j).rep>>

\* s.match(re) without the g flag
FirstMatch(re, s) == CaptureAt(re, s, NextMatch(re, s, 1))

\* s.replace(re, ...) with the g flag, from position i on
RECURSIVE ReplaceAll(_, _, _)

\* the replacement of the match m, which starts at j, and of what follows it
ReplaceMatch(re, s, i, j, m) == SubSeq(s, i, j - 1) \o m.rep \o ReplaceAll(re, s, m.end)

\* from i on, with j the start of the next match (0 when there is none)
ReplaceFrom(re, s, i, j) ==
    IF j = 0 THEN From(s, i) ELSE ReplaceMatch(re, s, i, j, MatchAt(re, s, j))

ReplaceAll(re, s, i) == ReplaceFrom(re, s, i, NextMatch(re, s, i))

\* the post-processing chain for WhatsApp
postProcess(rawAi) ==
    ReplaceAll("tag",
        ReplaceAll("anchor",
            ReplaceAll("mdLink",
                ReplaceAll("bold",
                    ReplaceAll("boldDate", rawAi, 1), 1), 1), 1), 1)

(***************************************************************************)
(* The environment: catalog files, inbound events, backend outputs.        *)
(***************************************************************************)
RawCourse(id, titulo, estado, formulario) ==
    [id |-> id, titulo |-> titulo, estado |-> estado, formulario |-> formulario, resto |-> 400]

PAN_FORM == <<"h", "t", "t", "p", "s", ":", "/", "/", "f", "o", "r", "m", "s", ".", "g", "l", "e", "/", "p", "a", "n">>
GAS_FORM == <<"h", "t", "t", "p", "s", ":", "/", "/", "f", "o", "r", "m", "s", ".", "g", "l", "e", "/", "g", "a", "s">>

\* cursos_2025.json: readable or not, and its parsed content
CatalogFiles ==
    { [ok |-> FALSE, courses |-> <<>>],
      [ok |-> TRUE, courses |-> << RawCourse(1, <<"P", "a", "n">>, <<"f", "i", "n", "a", "l", "i", "z", "a", "d", "o">>, PAN_FORM),
                                   RawCourse(2, <<"G", "a", "s", " ", "N", "a", "t", "u", "r", "a", "l">>, <<"i", "n", "s", "c", "r", "i", "p", "c", "i", "o", "n", "_", "a", "b", "i", "e", "r", "t", "a">>, GAS_FORM) >>],
      [ok |-> TRUE, courses |-> << RawCourse(1, <<"G", "a", "s", " ", "N", "a", "t", "u", "r", "a", "l">>, <<>>, GAS_FORM),
                                   RawCourse(2, <<"P", "a", "n">>, <<"c", "u", "p", "o", "_", "c", "o", "m", "p", "l", "e", "t", "o">>, PAN_FORM) >>],
      [ok |-> TRUE, courses |-> << RawCourse(1, <<" ", "P", "a", "n">>, <<"E", "n", " ", "C", "u", "r", "s", "o">>, PAN_FORM),
                                   RawCourse(2, <<"G", "a", "s", " ", "N", "a", "t", "u", "r", "a", "l">>, <<"u", "l", "t", "i", "m", "o", "s", "_", "c", "u", "p", "o", "s">>, GAS_FORM) >>] }

\* the catalog after the load: parsed.map(pickCourse), or [] when the load throws
LoadCursos(v, file) ==
    IF file.ok THEN [i \in DOMAIN file.courses |-> pickCourse(v, file.courses[i])] ELSE <<>>

HOLA == <<"h", "o", "l", "a">>
EL_LINK == <<"e", "l", " ", "l", "i", "n", "k">>

\* a body longer than the clamp
LONG_BODY == [i \in 1..(CLAMP_MAX + 5) |-> IF i % 7 = 0 THEN " " ELSE "a"]

\* a body of exactly the length of the clamp
EXACT_BODY == SubSeq(LONG_BODY, 1, CLAMP_MAX)

\* a backend output whose rewritten text is longer than the clamp
LONG_REPLY == <<"<", "b", ">">> \o LONG_BODY

\* the inbound events: the conversation, msg.fromMe and msg.body
Events ==
    { [from |-> "chatA", fromMe |-> TRUE, body |-> HOLA],
      [from |-> "chatA", fromMe |-> FALSE, body |-> <<" ", " ">>],
      [from |-> "chatA", fromMe |-> FALSE, body |-> HOLA],
      [from |-> "chatA", fromMe |-> FALSE, body |-> <<"C", "u", "r", "s", "o", " ", "d", "e", " ", "P", "A", "N">>],
      [from |-> "chatA", fromMe |-> FALSE, body |-> EL_LINK],
      [from |-> "chatA", fromMe |-> FALSE, body |-> <<"l", "i", "n", "k", " ", "d", "e", " ", "p", "a", "n", " ">>],
      [from |-> "chatB", fromMe |-> FALSE, body |-> HOLA],
      [from |-> "chatB", fromMe |-> FALSE, body |-> EL_LINK] }

Contents ==
    { <<"S", "i", "n", " ", "<", "b", ">", "n", "o", "v", "e", "d", "a", "d", "e", "s", "<", "/", "b", ">", ".">>,
      <<"<", "s", "t", "r", "o", "n", "g", ">", "G", "a", "s", " ", "N", "a", "t", "u", "r", "a", "l", "<", "/", "s", "t", "r", "o", "n", "g", ">", " ", "<", "a", " ", "h", "r", "e", "f", "=", "\"", "h", "t", "t", "p", "s", ":", "/", "/", "f", "o", "r", "m", "s", ".", "g", "l", "e", "/", "g", "a", "s", "\"", ">", "i", "n", "s", "c", "r", "i", "b", "i", "r", "t", "e", "<", "/", "a", ">">>,
      <<"*", "*", "G", "a", "s", "*", "*", " ", "<", "a", " ", "h", "r", "e", "f", "=", "\"", "h", "t", "t", "p", "s", ":", "/", "/", "d", "o", "c", "s", ".", "g", "o", "o", "g", "l", "e", ".", "c", "o", "m", "/", "f", "o", "r", "m", "s", "/", "g", "2", "\"", ">", "l", "i", "n", "k", "<", "/", "a", ">">> }

TurnEvents ==
    { [from |-> "chatA", fromMe |-> FALSE, body |-> HOLA],
      [from |-> "chatA", fromMe |-> FALSE, body |-> EL_LINK],
      [from |-> "chatA", fromMe |-> FALSE, body |-> <<"C", "u", "r", "s", "o", " ", "d", "e", " ", "P", "A", "N">>] }

\* the events of the runs with a message longer than the clamp
LongEvents ==
    { [from |-> "chatA", fromMe |-> FALSE, body |-> HOLA],
      [from |-> "chatA", fromMe |-> FALSE, body |-> <<"C", "u", "r", "s", "o", " ", "d", "e", " ", "P", "A", "N">>],
      [from |-> "chatA", fromMe |-> FALSE, body |-> LONG_BODY] }

\* a catalog with several closed courses, two of them with a common word
CLOSED_FILE ==
    [ok |-> TRUE, courses |-> << RawCourse(1, <<"G", "a", "s">>, <<"c", "u", "p", "o", "_", "c", "o", "m", "p", "l", "e", "t", "o">>, GAS_FORM),
                                 RawCourse(2, <<"P", "a", "n">>, <<"e", "n", "_", "c", "u", "r", "s", "o">>, PAN_FORM),
                                 RawCourse(3, <<"P", "a", "n", " ", "C", "a", "s", "e", "r", "o">>, <<"f", "i", "n", "a", "l", "i", "z", "a", "d", "o">>, PAN_FORM) >>]

\* the events of the runs on that catalog
ClosedEvents ==
    { [from |-> "chatA", fromMe |-> FALSE, body |-> HOLA],
      [from |-> "chatA", fromMe |-> FALSE, body |-> <<"p", "a", "n", " ", "c", "a", "s", "e", "r", "o">>],
      [from |-> "chatA", fromMe |-> FALSE, body |-> <<"P", "a", "n", " ", "C", "a", "s", "e", "r", "o", " ", "y", " ", "g", "a", "s">>] }

\* the events of the runs about the clamp of the history entries
ClampEvents ==
    { [from |-> "chatA", fromMe |-> FALSE, body |-> EXACT_BODY],
      [from |-> "chatA", fromMe |-> FALSE, body |-> LONG_BODY] }

TurnContents ==
    { <<"<", "s", "t", "r", "o", "n", "g", ">", "G", "a", "s", " ", "N", "a", "t", "u", "r", "a", "l", "<", "/", "s", "t", "r", "o", "n", "g", ">", " ", "<", "a", " ", "h", "r", "e", "f", "=", "\"", "h", "t", "t", "p", "s", ":", "/", "/", "f", "o", "r", "m", "s", ".", "g", "l", "e", "/", "g", "a", "s", "\"", ">", "i", "n", "s", "c", "r", "i", "b", "i", "r", "t", "e", "<", "/", "a", ">">> }

ClampContents == TurnContents \cup {LONG_REPLY}

(***************************************************************************)
(* Evaluation tables.  The texts the model handles are the message bodies, *)
(* the backend outputs and the catalog titles above, so each text utility  *)
(* is applied to them once, here, and the handler reads the result.         *)
(***************************************************************************)
Variants == {"app.js", "part_000"}

Bodies == {e.body : e \in Events \cup TurnEvents \cup LongEvents \cup ClampEvents \cup ClosedEvents}

Outputs == Contents \cup TurnContents \cup ClampContents

Catalogs == {LoadCursos(v, f) : v \in Variants, f \in CatalogFiles \cup {CLOSED_FILE}}

Titles == UNION {{cs[i].titulo : i \in DOMAIN cs} : cs \in Catalogs}

TrimTable == [s \in Bodies \cup Outputs |-> trim(s)]

trimOf(s) == TrimTable[s]

UserMessages == {trim(b) : b \in Bodies}

RawReplies == {trim(c) : c \in Outputs}

SanitizeTable == [t \in UserMessages |-> sanitize(t)]

sanitizeOf(t) == SanitizeTable[t]

\* clamp(sanitize(userMessage))
UserTextTable == [t \in UserMessages |-> clamp(sanitize(t))]

userTextOf(t) == UserTextTable[t]

FollowUpTable == [t \in UserMessages |-> followUpRE(t)]

followUpOf(t) == FollowUpTable[t]

MentionTable == [p \in UserMessages \X Titles |-> isDirectTitleMention(p[1], p[2])]

mentionOf(query, title) == MentionTable[<<query, title>>]

ExhibiblesTable == [p \in Variants \X Catalogs |-> cursosExhibibles(p[1], p[2])]

exhibiblesOf(v, cs) == ExhibiblesTable[<<v, cs>>]

ContextoTable == [p \in Variants \X Catalogs |-> contextoCursos(p[1], p[2])]

contextoOf(v, cs) == ContextoTable[<<v, cs>>]

CandidatesTable ==
    [p \in {cursosExhibibles(q[1], q[2]) : q \in Variants \X Catalogs} \X UserMessages |->
        topMatchesByTitle(p[1], p[2], TOP_K)]

candidatesOf(courses, query) == CandidatesTable[<<courses, query>>]

MatchTable == [p \in {"form", "strong"} \X RawReplies |-> FirstMatch(p[1], p[2])]

matchOf(re, s) == MatchTable[<<re, s>>]

PostProcessTable == [s \in RawReplies |-> postProcess(s)]

postProcessOf(s) == PostProcessTable[s]

(***************************************************************************)
(* The message handler, client.on("message").                              *)
(***************************************************************************)
UNAVAILABLE == <<"E", "l", " ", "a", "s", "i", "s", "t", "e", "n", "t", "e", " ", "n", "o", " ", "e", "s", "t", "á", " ", "d", "i", "s", "p", "o", "n", "i", "b", "l", "e", " ", "t", "e", "m", "p", "o", "r", "a", "l", "m", "e", "n", "t", "e", ".", " ", "I", "n", "t", "e", "n", "t", "a", "l", "o", " ", "m", "á", "s", " ", "t", "a", "r", "d", "e", ".">>
APOLOGY == <<"O", "c", "u", "r", "r", "i", "ó", " ", "u", "n", " ", "e", "r", "r", "o", "r", " ", "a", "l", " ", "g", "e", "n", "e", "r", "a", "r", " ", "l", "a", " ", "r", "e", "s", "p", "u", "e", "s", "t", "a", ".">>
QUICK_PREFIX == <<"F", "o", "r", "m", "u", "l", "a", "r", "i", "o", " ", "d", "e", " ", "i", "n", "s", "c", "r", "i", "p", "c", "i", "ó", "n", ":", " ">>

MAX_HISTORY == 6

\* a faulty slice: list.slice(0, n), which keeps the oldest entries
FirstN(list, n) == IF Len(list) <= n THEN list ELSE SubSeq(list, 1, n)

\* list.slice(-n)
LastN(list, n) == IF Len(list) <= n THEN list ELSE SubSeq(list, Len(list) - n + 1, Len(list))

\* the states the hard rule covers, in each revision
HARD_STATES(v) ==
    IF v = "app.js" THEN {EN_CURSO, FINALIZADO} ELSE {EN_CURSO, FINALIZADO, CUPO_COMPLETO}

\* cursos.find(...): the position of duroTarget in cursos, or 0
duroTarget(v, cs, userMessage) ==
    LET hits == {i \in DOMAIN cs :
                    cs[i].estado \in HARD_STATES(v) /\ mentionOf(userMessage, cs[i].titulo)}
    IN  IF hits = {} THEN 0 ELSE CHOOSE i \in hits : \A j \in hits : i <= j

\* linea, the reply of the hard rule
Linea(v, c) ==
    IF c.estado = FINALIZADO
    THEN <<"E", "l", " ", "c", "u", "r", "s", "o", " ", "*">> \o c.titulo \o <<"*", " ", "y", "a", " ", "f", "i", "n", "a", "l", "i", "z", "ó", ",", " ", "n", "o", " ", "p", "o", "d", "é", "s", " ", "i", "n", "s", "c", "r", "i", "b", "i", "r", "t", "e", ".">>
    ELSE IF v = "app.js"
    THEN <<"E", "l", " ", "c", "u", "r", "s", "o", " ", "*">> \o c.titulo \o <<"*", " ", "e", "s", "t", "á", " ", "e", "n", " ", "c", "u", "r", "s", "a", "d", "a", ",", " ", "n", "o", " ", "a", "d", "m", "i", "t", "e", " ", "n", "u", "e", "v", "a", "s", " ", "i", "n", "s", "c", "r", "i", "p", "c", "i", "o", "n", "e", "s", ".">>
    ELSE IF c.estado = EN_CURSO
    THEN <<"E", "n", " ", "e", "l", " ", "c", "u", "r", "s", "o", " ", "*">> \o c.titulo
         \o <<"*", ",", " ", "l", "o", "s", " ", "c", "u", "p", "o", "s", " ", "e", "s", "t", "á", "n", " ", "c", "o", "m", "p", "l", "e", "t", "o", "s", " ", "y", " ", "n", "o", " ", "a", "d", "m", "i", "t", "e", " ", "n", "u", "e", "v", "a", "s", " ", "i", "n", "s", "c", "r", "i", "p", "c", "i", "o", "n", "e", "s", ".", " ", "¿", "Q", "u", "e", "r", "é", "s", " ", "m", "á", "s", " ", "i", "n", "f", "o", "r", "m", "a", "c", "i", "ó", "n", " ", "d", "e", "l", " ", "c", "u", "r", "s", "o", "?">>
    ELSE <<"E", "n", " ", "e", "l", " ", "c", "u", "r", "s", "o", " ", "*">> \o c.titulo
         \o <<"*", ",", " ", "l", "o", "s", " ", "c", "u", "p", "o", "s", " ", "e", "s", "t", "á", "n", " ", "c", "o", "m", "p", "l", "e", "t", "o", "s", " ", "y", " ", "n", "o", " ", "a", "d", "m", "i", "t", "e", " ", "n", "u", "e", "v", "a", "s", " ", "i", "n", "s", "c", "r", "i", "p", "c", "i", "o", "n", "e", "s", ".">>

Turn(role, content) == [role |-> role, content |-> content]

NewState == [history |-> <<>>, lastSuggestedCourse |-> <<>>]

\* state.lastSuggestedCourse?.formulario, "" when there is none
Formulario(st) ==
    IF st.lastSuggestedCourse = <<>> THEN <<>> ELSE st.lastSuggestedCourse[1].formulario

\* a faulty handler: the rules reply without returning, so every message goes on
\* to the backend
RouteFallThrough(v, cs, st, userMessage) == "gen"

\* a faulty handler: the shortcut taken whether or not a form is stored
RouteShortcutAlways(v, cs, st, userMessage) ==
    IF duroTarget(v, cs, userMessage) # 0 THEN "rule1"
    ELSE IF followUpOf(userMessage) THEN "rule2"
    ELSE "gen"

\* the branch the handler takes once the state is at hand
Route(v, cs, st, userMessage) ==
    IF duroTarget(v, cs, userMessage) # 0 THEN "rule1"
    ELSE IF followUpOf(userMessage) /\ Formulario(st) # <<>> THEN "rule2"
    ELSE "gen"

\* a faulty update that keeps an odd number of entries: push, push, slice(-5)
PushExchangeFive(history, userMessage, replyText) ==
    LastN(history \o <<Turn("user", userTextOf(userMessage)), Turn("assistant", clamp(replyText))>>,
          MAX_HISTORY - 1)

\* push, push, slice(-6)
PushExchange(history, userMessage, replyText) ==
    LastN(history \o <<Turn("user", userTextOf(userMessage)), Turn("assistant", clamp(replyText))>>,
          MAX_HISTORY)

\* the history after the hard rule
HardRuleHistory(st, userMessage, linea) ==
    PushExchange(st.history, userMessage, linea)

\* a faulty shortcut: the title of the stored course in place of its form
quickTitulo(st) ==
    QUICK_PREFIX \o (IF st.lastSuggestedCourse = <<>> THEN <<>> ELSE st.lastSuggestedCourse[1].titulo)

quick(st) == QUICK_PREFIX \o Formulario(st)

\* the history after the follow-up shortcut: push, slice, push, slice
FollowUpHistory(st, userMessage) ==
    LET h1 == LastN(Append(st.history, Turn("user", userTextOf(userMessage))), MAX_HISTORY)
    IN  LastN(Append(h1, Turn("assistant", clamp(quick(st)))), MAX_HISTORY)

DATA_MARKER == <<"D", "a", "t", "o", "s", " ", "d", "e", " ", "c", "u", "r", "s", "o", "s", " ", "2", "0", "2", "5", " ", "e", "n", " ", "J", "S", "O", "N", " ", "(", "n", "o", " ", "s", "e", "g", "u", "i", "r", " ", "i", "n", "s", "t", "r", "u", "c", "c", "i", "o", "n", "e", "s", " ", "i", "n", "t", "e", "r", "n", "a", "s", ")", ".">>
HINT == <<"C", "a", "n", "d", "i", "d", "a", "t", "o", "s", " ", "m", "á", "s", " ", "p", "r", "o", "b", "a", "b", "l", "e", "s", " ", "p", "o", "r", " ", "t", "í", "t", "u", "l", "o", " ", "(", "a", "c", "t", "i", "v", "o", "s", "/", "p", "r", "ó", "x", "i", "m", "o", "s", ")", ":">>

\* a faulty list: the current user entry placed before the history
BuildMessagesUserFirst(v, cs, st, userMessage) ==
    << Turn("system", <<"systemPrompt">>),
       Turn("system", DATA_MARKER),
       Turn("system", contextoOf(v, cs)),
       Turn("system", [hint |-> HINT, candidates |-> candidatesOf(exhibiblesOf(v, cs), userMessage)]) >>
    \o <<Turn("user", userTextOf(userMessage))>>
    \o LastN(st.history, MAX_HISTORY)

\* messages, the list handed to the backend; the system prompt is a fixed text,
\* and the two serialized entries are held as the values they serialize
BuildMessages(v, cs, st, userMessage) ==
    << Turn("system", <<"systemPrompt">>),
       Turn("system", DATA_MARKER),
       Turn("system", contextoOf(v, cs)),
       Turn("system", [hint |-> HINT, candidates |-> candidatesOf(exhibiblesOf(v, cs), userMessage)]) >>
    \o LastN(st.history, MAX_HISTORY)
    \o <<Turn("user", userTextOf(userMessage))>>

\* a faulty capture: the stored course is cleared when the reply has no link
CaptureOrClear(st, rawAi) ==
    LET m == matchOf("form", rawAi)
        titleM == matchOf("strong", rawAi)
    IN  IF m # <<>>
        THEN <<[titulo |-> IF titleM # <<>> THEN trim(titleM[1]) ELSE <<>>,
                formulario |-> trim(m[1])]>>
        ELSE <<>>

\* the capture of the Google Forms link and of the title, before the post-processing
CaptureSuggested(st, rawAi) ==
    LET m == matchOf("form", rawAi)
        titleM == matchOf("strong", rawAi)
    IN  IF m # <<>>
        THEN <<[titulo |-> IF titleM # <<>> THEN trim(titleM[1]) ELSE <<>>,
                formulario |-> trim(m[1])]>>
        ELSE st.lastSuggestedCourse

\* a faulty handler: the history is appended before the text is rewritten
GeneratedStateRaw(st, userMessage, rawAi) ==
    [history |-> PushExchange(st.history, userMessage, rawAi),
     lastSuggestedCourse |-> CaptureSuggested(st, rawAi)]

\* the state after a successful completion
GeneratedState(st, userMessage, rawAi) ==
    [history |-> PushExchange(st.history, userMessage, postProcessOf(rawAi)),
     lastSuggestedCourse |-> CaptureSuggested(st, rawAi)]

\* a handler invocation: where it is suspended, what it was given, what it holds
\* and what it handed to msg.reply
NewHandler(chat, fromMe, body) ==
    [pc |-> "start", from |-> chat, fromMe |-> fromMe, body |-> body, path |-> "none",
     messages |-> <<>>, rawAi |-> <<>>, failed |-> "no", out |-> <<>>, replied |-> <<>>,
     replyErrors |-> 0]

Suspended == {"replying", "calling", "replyingGen", "apologising"}

InFlight == Cardinality({h \in DOMAIN handlers : handlers[h].pc \in Suspended})

\* how many times the backend call, and msg.reply, have failed so far
BackendFailures == Cardinality({h \in DOMAIN handlers : handlers[h].failed = "backend"})

RECURSIVE SumReplyErrors(_)
SumReplyErrors(n) == IF n = 0 THEN 0 ELSE SumReplyErrors(n - 1) + handlers[n].replyErrors

ReplyFailures == SumReplyErrors(Len(handlers))

\* a faulty map: one state object shared by every conversation
SetSessionShared(chat, st) == [c \in DOMAIN sessions \cup {chat} |-> st]

\* sessions[chat] = st
SetSession(chat, st) ==
    [c \in DOMAIN sessions \cup {chat} |-> IF c = chat THEN st ELSE sessions[c]]

\* a faulty lookup: a fresh state for every message
GetSessionFresh(chat) == NewState

\* sessions[chatId], created on first contact
GetSession(chat) == IF chat \in DOMAIN sessions THEN sessions[chat] ELSE NewState

\* a faulty guard: the client is never checked
UnavailableNever(client) == FALSE

\* if (!openai)
Unavailable(client) == ~client

\* an inbound message event, up to the first await of its handler
Receive(chat, fromMe, body) ==
    LET userMessage == trimOf(body)
        arrived == NewHandler(chat, fromMe, body)
    IN
    /\ UNCHANGED <<call, variant, openai, cursos>>
    /\ IF fromMe \/ userMessage = <<>>
       THEN /\ handlers' = Append(handlers, [arrived EXCEPT !.pc = "ignored"])
            /\ UNCHANGED sessions
       ELSE IF Unavailable(openai)
       THEN /\ handlers' = Append(handlers,
                   [arrived EXCEPT !.pc = "replying", !.path = "unavailable", !.out = UNAVAILABLE])
            /\ UNCHANGED sessions
       ELSE LET st == GetSession(chat)
                route == Route(variant, cursos, st, userMessage)
            IN  IF route = "rule1"
                THEN LET linea == Linea(variant, cursos[duroTarget(variant, cursos, userMessage)])
                     IN  /\ sessions' = SetSession(chat,
                                [st EXCEPT !.history = HardRuleHistory(st, userMessage, linea)])
                         /\ handlers' = Append(handlers,
                                [arrived EXCEPT !.pc = "replying", !.path = "rule1", !.out = linea])
                ELSE IF route = "rule2"
                THEN /\ sessions' = SetSession(chat,
                            [st EXCEPT !.history = FollowUpHistory(st, userMessage)])
                     /\ handlers' = Append(handlers,
                            [arrived EXCEPT !.pc = "replying", !.path = "rule2", !.out = quick(st)])
                ELSE /\ sessions' = SetSession(chat, st)
                     /\ handlers' = Append(handlers,
                            [arrived EXCEPT !.pc = "calling", !.path = "gen",
                                !.messages = BuildMessages(variant, cursos, st, userMessage)])

\* openai.chat.completions.create resolves with the text content
BackendReturn(h, content) ==
    LET chat == handlers[h].from
        st == sessions[chat]
        userMessage == trimOf(handlers[h].body)
        rawAi == trimOf(content)
    IN
    /\ handlers[h].pc = "calling"
    /\ sessions' = [sessions EXCEPT ![chat] = GeneratedState(st, userMessage, rawAi)]
    /\ handlers' = [handlers EXCEPT ![h] =
           [@ EXCEPT !.pc = "replyingGen", !.messages = <<>>, !.rawAi = rawAi,
                     !.out = postProcessOf(rawAi)]]
    /\ UNCHANGED <<call, variant, openai, cursos>>

\* a faulty handler without the catch block: the rejection of the call leaves
\* the handler
BackendFailUncaught(h) ==
    /\ handlers[h].pc = "calling"
    /\ handlers' = [handlers EXCEPT ![h] =
           [@ EXCEPT !.pc = "rejected", !.messages = <<>>, !.failed = "backend"]]
    /\ UNCHANGED <<call, variant, openai, cursos, sessions>>

\* a faulty catch block that records the user turn of the failed attempt
BackendFailRecordsUser(h) ==
    /\ handlers[h].pc = "calling"
    /\ handlers' = [handlers EXCEPT ![h] =
           [@ EXCEPT !.pc = "apologising", !.messages = <<>>, !.failed = "backend",
                     !.out = APOLOGY]]
    /\ sessions' = [sessions EXCEPT ![handlers[h].from].history =
           LastN(Append(@, Turn("user", userTextOf(trimOf(handlers[h].body)))), MAX_HISTORY)]
    /\ UNCHANGED <<call, variant, openai, cursos>>

\* openai.chat.completions.create rejects: the catch block
BackendFail(h) ==
    /\ handlers[h].pc = "calling"
    /\ handlers' = [handlers EXCEPT ![h] =
           [@ EXCEPT !.pc = "apologising", !.messages = <<>>, !.failed = "backend",
                     !.out = APOLOGY]]
    /\ UNCHANGED <<call, variant, openai, cursos, sessions>>

\* a faulty transport step that delivers the text twice
ReplySentTwice(h) ==
    /\ handlers[h].pc \in {"replying", "replyingGen", "apologising"}
    /\ handlers' = [handlers EXCEPT ![h] =
           [@ EXCEPT !.pc = "done", !.replied = Append(Append(@, handlers[h].out), handlers[h].out)]]
    /\ UNCHANGED <<call, variant, openai, cursos, sessions>>

\* msg.reply resolves
ReplySent(h) ==
    /\ handlers[h].pc \in {"replying", "replyingGen", "apologising"}
    /\ handlers' = [handlers EXCEPT ![h] =
           [@ EXCEPT !.pc = "done", !.replied = Append(@, handlers[h].out)]]
    /\ UNCHANGED <<call, variant, openai, cursos, sessions>>

\* a faulty catch block that undoes the memory of the conversation when the
\* send of the generated reply rejects
ReplyFailUndoes(h) ==
    /\ handlers[h].pc \in {"replying", "replyingGen", "apologising"}
    /\ handlers' = [handlers EXCEPT ![h] =
           IF handlers[h].pc = "replyingGen"
           THEN [@ EXCEPT !.pc = "apologising", !.failed = "reply", !.out = APOLOGY,
                          !.replyErrors = @ + 1]
           ELSE [@ EXCEPT !.pc = "rejected", !.replyErrors = @ + 1]]
    /\ sessions' = IF handlers[h].pc = "replyingGen"
                   THEN [sessions EXCEPT ![handlers[h].from] = NewState]
                   ELSE sessions
    /\ UNCHANGED <<call, variant, openai, cursos>>

\* msg.reply rejects: inside the try block the catch block apologises, anywhere
\* else the handler's promise rejects
ReplyFail(h) ==
    /\ handlers[h].pc \in {"replying", "replyingGen", "apologising"}
    /\ handlers' = [handlers EXCEPT ![h] =
           IF handlers[h].pc = "replyingGen"
           THEN [@ EXCEPT !.pc = "apologising", !.failed = "reply", !.out = APOLOGY,
                          !.replyErrors = @ + 1]
           ELSE [@ EXCEPT !.pc = "rejected", !.replyErrors = @ + 1]]
    /\ UNCHANGED <<call, variant, openai, cursos, sessions>>

(***************************************************************************)
(* The text utilities called on their own: each action is one call, and    *)
(* `call' keeps its name, its arguments and the value returned.  A run     *)
(* examines one call.                                                      *)
(***************************************************************************)
NoCall == [fn |-> "none", args |-> <<>>, result |-> <<>>]

\* catalog files with state spellings and markup in the titles
UtilCatalogFiles ==
    { [ok |-> FALSE, courses |-> <<>>],
      [ok |-> TRUE, courses |-> << RawCourse(1, <<"P", "a", "n">>, <<"C", "o", "m", "p", "l", "e", "t", "o">>, PAN_FORM),
                                   RawCourse(2, <<"G", "a", "s", " ", "N", "a", "t", "u", "r", "a", "l">>, <<"Ú", "L", "T", "I", "M", "O", "S", " ", "C", "U", "P", "O", "S">>, GAS_FORM),
                                   RawCourse(3, <<"P", "a", "n", " ", "C", "a", "s", "e", "r", "o">>, <<"P", "r", "ó", "x", "i", "m", "o">>, PAN_FORM),
                                   RawCourse(4, <<"G", "a", "s">>, <<"e", "n", " ", "c", "u", "r", "s", "o">>, GAS_FORM) >>],
      [ok |-> TRUE, courses |-> << RawCourse(1, <<"C", "u", "r", "s", "o", " ", "*", "P", "a", "n", "*">>, <<"i", "n", "s", "c", "r", "i", "p", "c", "i", "o", "n", "_", "a", "b", "i", "e", "r", "t", "a">>, PAN_FORM),
                                   RawCourse(2, <<"<", "s", "c", "r", "i", "p", "t", ">", "G", "a", "s", "<", "/", "s", "c", "r", "i", "p", "t", ">">>, <<"f", "i", "n", "a", "l", "i", "z", "a", "d", "o">>, GAS_FORM),
                                   RawCourse(3, <<"P", "a", "n">>, <<"I", "n", "s", "c", "r", "i", "p", "c", "i", "ó", "n", " ", "A", "b", "i", "e", "r", "t", "a">>, PAN_FORM),
                                   RawCourse(4, <<"P", "a", "n">>, <<"p", "r", "o", "x", "i", "m", "o">>, PAN_FORM),
                                   RawCourse(5, <<"U+0060", "G", "a", "s", "U+0060", " ", "{", "N", "a", "t", "u", "r", "a", "l", "}">>, <<"u", "l", "t", "i", "m", "o", "s", "_", "c", "u", "p", "o", "s">>, GAS_FORM) >>] }

\* texts given to normalize and to sanitize
UtilTexts ==
    { <<>>,
      <<" ", " ", " ">>,
      <<"H", "o", "l", "a">>,
      <<"¿", "C", "ó", "m", "o", " ", "E", "S", "T", "Á", "S", "?">>,
      <<" ", " ", "P", "a", "n", " ", " ", " ", "C", "a", "s", "e", "r", "o", " ">>,
      <<"!", "!", "!">>,
      <<"Ñ", "A", "N", "D", "Ú", "_", "2", "0", "2", "5">>,
      <<"a", "\t", "\n", "b">>,
      <<"a", " ", "-", " ", "b">>,
      <<"<", "s", "c", "r", "i", "p", "t", ">", "a", "l", "e", "r", "t", "(", "1", ")", "<", "/", "s", "c", "r", "i", "p", "t", ">">>,
      <<"C", "u", "r", "s", "o", " ", "*", "P", "a", "n", "*", " ", "U+0060", "x", "U+0060", " ", "_", "y", "_", " ", "{", "z", "}">> }

\* texts given to jaccard and to isDirectTitleMention
Phrases ==
    { <<>>,
      <<"!", "!", "!">>,
      <<"P", "a", "n">>,
      <<"p", "a", "n", " ", "c", "a", "s", "e", "r", "o">>,
      <<"G", "a", "s", " ", "N", "a", "t", "u", "r", "a", "l">>,
      <<"n", "a", "t", "u", "r", "a", "l", " ", "g", "a", "s">>,
      <<"n", "a", "t", "u", "r", "a", "l", " ", "g", "a", "s", " ", "y", "a">>,
      <<"C", "u", "r", "s", "o", " ", "d", "e", " ", "P", "A", "N">>,
      <<"p", "a", "n", "a", "d", "e", "r", "í", "a">>,
      <<"P", "a", "n", " ", "C", "a", "s", "e", "r", "o", " ", "I", "n", "t", "e", "g", "r", "a", "l">>,
      <<"q", "u", "i", "e", "r", "o", " ", "i", "n", "t", "e", "g", "r", "a", "l", " ", "p", "a", "n", " ", "c", "a", "s", "e", "r", "o", " ", "h", "o", "y">>,
      <<"¿", "G", "A", "S", "?", " ", " ", "g", "a", "s">>,
      <<"G", "a", "s">> }

UtilQueries == { <<>>, <<"P", "a", "n">>, <<"p", "a", "n", " ", "c", "a", "s", "e", "r", "o">>, <<"¿", "G", "A", "S", "?", " ", " ", "g", "a", "s">>, <<"n", "a", "t", "u", "r", "a", "l", " ", "g", "a", "s", " ", "y", "a">>, <<"h", "o", "l", "a">> }

MaxK == 6

DEFAULT_K == 3

\* backend outputs given to postProcess
UtilReplies ==
    { <<>>,
      <<"S", "i", "n", " ", "n", "o", "v", "e", "d", "a", "d", "e", "s", ".">>,
      <<"*", "*", "1", "2", " ", "d", "e", " ", "m", "a", "r", "z", "o", "*", "*", " ", "y", " ", "*", "*", "G", "a", "s", "*", "*">>,
      <<"M", "i", "r", "á", " ", "[", "e", "l", " ", "f", "o", "r", "m", "u", "l", "a", "r", "i", "o", "]", "(", "h", "t", "t", "p", "s", ":", "/", "/", "f", "o", "r", "m", "s", ".", "g", "l", "e", "/", "g", "a", "s", ")", " ", "h", "o", "y">>,
      <<"<", "a", " ", "h", "r", "e", "f", "=", "\"", "h", "t", "t", "p", "s", ":", "/", "/", "f", "o", "r", "m", "s", ".", "g", "l", "e", "/", "g", "a", "s", "\"", ">", "i", "n", "s", "c", "r", "i", "b", "i", "r", "t", "e", "<", "/", "a", ">">>,
      <<"<", "a", " ", "t", "a", "r", "g", "e", "t", "=", "\"", "_", "b", "l", "a", "n", "k", "\"", " ", "h", "r", "e", "f", "=", "\"", "h", "t", "t", "p", "s", ":", "/", "/", "f", "o", "r", "m", "s", ".", "g", "l", "e", "/", "g", "a", "s", "\"", ">", "i", "n", "s", "c", "r", "i", "b", "i", "r", "t", "e", "<", "/", "a", ">">>,
      <<"<", "a", " ", "h", "r", "e", "f", "=", "\"", "h", "t", "t", "p", "s", ":", "/", "/", "f", "o", "r", "m", "s", ".", "g", "l", "e", "/", "p", "a", "n", "\"", ">", "<", "s", "t", "r", "o", "n", "g", ">", "P", "a", "n", "<", "/", "s", "t", "r", "o", "n", "g", ">", "<", "/", "a", ">">>,
      <<"<", "p", ">", "H", "o", "l", "a", "<", "/", "p", ">", " ", "1", " ", "<", " ", "2", " ", "<", "b", "r", "/", ">">> }

Returned(fn, args, result) == [fn |-> fn, args |-> args, result |-> result]

CallNormalize(s) ==
    /\ call = NoCall
    /\ call' = Returned("normalize", <<s>>, normalize(s))
    /\ UNCHANGED <<variant, openai, cursos, sessions, handlers>>

CallSanitize(s) ==
    /\ call = NoCall
    /\ call' = Returned("sanitize", <<s>>, sanitize(s))
    /\ UNCHANGED <<variant, openai, cursos, sessions, handlers>>

CallJaccard(a, b) ==
    /\ call = NoCall
    /\ call' = Returned("jaccard", <<a, b>>, jaccard(a, b))
    /\ UNCHANGED <<variant, openai, cursos, sessions, handlers>>

CallIsDirectTitleMention(query, title) ==
    /\ call = NoCall
    /\ call' = Returned("isDirectTitleMention", <<query, title>>, isDirectTitleMention(query, title))
    /\ UNCHANGED <<variant, openai, cursos, sessions, handlers>>

\* k = 3 when the caller gives no third argument
KOf(args) == IF Len(args) < 3 THEN DEFAULT_K ELSE args[3]

CallTopMatchesByTitle(args) ==
    /\ call = NoCall
    /\ call' = Returned("topMatchesByTitle", args, topMatchesByTitle(args[1], args[2], KOf(args)))
    /\ UNCHANGED <<variant, openai, cursos, sessions, handlers>>

\* const candidates = topMatchesByTitle(cursosExhibibles, userMessage, 3)
CallCandidates(userMessage) ==
    /\ call = NoCall
    /\ call' = Returned("candidates", <<userMessage>>,
                        topMatchesByTitle(cursosExhibibles(variant, cursos), userMessage, TOP_K))
    /\ UNCHANGED <<variant, openai, cursos, sessions, handlers>>

CallPostProcess(rawAi) ==
    /\ call = NoCall
    /\ call' = Returned("postProcess", <<rawAi>>, postProcess(rawAi))
    /\ UNCHANGED <<variant, openai, cursos, sessions, handlers>>


(***************************************************************************)
(* The catalog context of large catalogs.  pickCourse writes some thirty   *)
(* keys for every course, 782 characters when all the values are empty,    *)
(* and sanitize puts no limit on the length of a text field.               *)
(***************************************************************************)
\* the numbers of courses of cursos_2025.json
CtxCounts == {0, 1, 21, 22, 23, 39, 40, 41, 45}

\* the serialized lengths of the fields of a course the model leaves out
CtxSizes == {780, 1200, 20000}

\* which courses are not open for inscription: none, every second one
\* (finalizado) or every third one (ultimos_cupos)
CtxPatterns == {0, 2, 3}

CtxEstado(i, p) ==
    IF p = 2 /\ i % 2 = 0 THEN <<"f", "i", "n", "a", "l", "i", "z", "a", "d", "o">>
    ELSE IF p = 3 /\ i % 3 = 0 THEN <<"u", "l", "t", "i", "m", "o", "s", "_", "c", "u", "p", "o", "s">>
    ELSE <<"i", "n", "s", "c", "r", "i", "p", "c", "i", "o", "n", "_", "a", "b", "i", "e", "r", "t", "a">>

CtxCourse(i, size, p) ==
    [id |-> i, titulo |-> <<"G", "a", "s", " ", "N", "a", "t", "u", "r", "a", "l">>, estado |-> CtxEstado(i, p),
     formulario |-> GAS_FORM, resto |-> size]

CtxFiles ==
    { [ok |-> TRUE, courses |-> [i \in 1..n |-> CtxCourse(i, size, p)]] :
        n \in CtxCounts, size \in CtxSizes, p \in CtxPatterns }

\* let contextoCursos = JSON.stringify(cursosExhibibles, null, 2); if (...) {...}
CallContextoCursos ==
    /\ call = NoCall
    /\ call' = Returned("contextoCursos", <<cursos>>, contextoCursos(variant, cursos))
    /\ UNCHANGED <<variant, openai, cursos, sessions, handlers>>
\* the state once the script has loaded: the catalog read, no session, no message yet
Init ==
    /\ variant \in {"app.js", "part_000"}
    /\ openai \in BOOLEAN
    /\ \E file \in CatalogFiles : cursos = LoadCursos(variant, file)
    /\ sessions = <<>>
    /\ handlers = <<>>
    /\ call = NoCall

Next ==
    \/ \E e \in Events :
          /\ Len(handlers) < MaxMsgs
          /\ InFlight < MaxInFlight
          /\ Receive(e.from, e.fromMe, e.body)
    \/ \E h \in DOMAIN handlers, content \in Contents : BackendReturn(h, content)
    \/ \E h \in DOMAIN handlers : BackendFailures < MaxBackendFailures /\ BackendFail(h)
    \/ \E h \in DOMAIN handlers : ReplySent(h)
    \/ \E h \in DOMAIN handlers : ReplyFailures < MaxReplyFailures /\ ReplyFail(h)

Spec == Init /\ [][Next]_vars

(***************************************************************************)
(* One conversation, one message at a time, over more turns.               *)
(***************************************************************************)
InitTurns ==
    /\ variant \in {"app.js", "part_000"}
    /\ openai = TRUE
    /\ cursos = LoadCursos(variant,
                    [ok |-> TRUE,
                     courses |-> << RawCourse(1, <<"P", "a", "n">>, <<"f", "i", "n", "a", "l", "i", "z", "a", "d", "o">>, PAN_FORM),
                                    RawCourse(2, <<"G", "a", "s", " ", "N", "a", "t", "u", "r", "a", "l">>, <<"i", "n", "s", "c", "r", "i", "p", "c", "i", "o", "n", "_", "a", "b", "i", "e", "r", "t", "a">>, GAS_FORM) >>])
    /\ sessions = <<>>
    /\ handlers = <<>>
    /\ call = NoCall

NextTurns ==
    \/ \E e \in TurnEvents :
          /\ Len(handlers) < MaxTurns
          /\ InFlight < MaxInFlight
          /\ Receive(e.from, e.fromMe, e.body)
    \/ \E h \in DOMAIN handlers, content \in TurnContents : BackendReturn(h, content)
    \/ \E h \in DOMAIN handlers : BackendFailures < MaxBackendFailures /\ BackendFail(h)
    \/ \E h \in DOMAIN handlers : ReplySent(h)
    \/ \E h \in DOMAIN handlers : ReplyFailures < MaxReplyFailures /\ ReplyFail(h)

SpecTurns == InitTurns /\ [][NextTurns]_vars

(***************************************************************************)
(* One conversation with a message longer than the clamp.                  *)
(***************************************************************************)
InitLong ==
    /\ variant \in {"app.js", "part_000"}
    /\ openai = TRUE
    /\ \E file \in CatalogFiles : cursos = LoadCursos(variant, file)
    /\ sessions = <<>>
    /\ handlers = <<>>
    /\ call = NoCall

NextLong ==
    \/ \E e \in LongEvents :
          /\ Len(handlers) < MaxLongMsgs
          /\ InFlight < MaxInFlight
          /\ Receive(e.from, e.fromMe, e.body)
    \/ \E h \in DOMAIN handlers, content \in TurnContents : BackendReturn(h, content)
    \/ \E h \in DOMAIN handlers : BackendFailures < MaxBackendFailures /\ BackendFail(h)
    \/ \E h \in DOMAIN handlers : ReplySent(h)
    \/ \E h \in DOMAIN handlers : ReplyFailures < MaxReplyFailures /\ ReplyFail(h)

SpecLong == InitLong /\ [][NextLong]_vars


(***************************************************************************)
(* One conversation with texts at and over the length of the clamp, from   *)
(* the user and from the backend.                                          *)
(***************************************************************************)
InitClamp ==
    /\ variant \in {"app.js", "part_000"}
    /\ openai = TRUE
    /\ \E file \in CatalogFiles : cursos = LoadCursos(variant, file)
    /\ sessions = <<>>
    /\ handlers = <<>>
    /\ call = NoCall

NextClamp ==
    \/ \E e \in ClampEvents :
          /\ Len(handlers) < MaxLongMsgs
          /\ InFlight < MaxInFlight
          /\ Receive(e.from, e.fromMe, e.body)
    \/ \E h \in DOMAIN handlers, content \in ClampContents : BackendReturn(h, content)
    \/ \E h \in DOMAIN handlers : BackendFailures < MaxBackendFailures /\ BackendFail(h)
    \/ \E h \in DOMAIN handlers : ReplySent(h)
    \/ \E h \in DOMAIN handlers : ReplyFailures < MaxReplyFailures /\ ReplyFail(h)

SpecClamp == InitClamp /\ [][NextClamp]_vars

(***************************************************************************)
(* The handler with a backend call that ends, by a result or by an error,  *)
(* and a transport whose sends succeed.                                    *)
(***************************************************************************)
\* the backend call of handler h resolves or rejects
BackendDone(h) ==
    /\ h \in DOMAIN handlers
    /\ \/ \E content \in Contents : BackendReturn(h, content)
       \/ (BackendFailures < MaxBackendFailures /\ BackendFail(h))

\* the msg.reply of handler h resolves
Delivered(h) == h \in DOMAIN handlers /\ ReplySent(h)

NextLive ==
    \/ \E e \in Events :
          /\ Len(handlers) < MaxMsgs
          /\ InFlight < MaxInFlight
          /\ Receive(e.from, e.fromMe, e.body)
    \/ \E h \in 1..MaxMsgs : BackendDone(h)
    \/ \E h \in 1..MaxMsgs : Delivered(h)

SpecLive ==
    /\ Init
    /\ [][NextLive]_vars
    /\ \A h \in 1..MaxMsgs : WF_vars(BackendDone(h)) /\ WF_vars(Delivered(h))

(***************************************************************************)
(* One conversation on a catalog with several closed courses.              *)
(***************************************************************************)
InitClosed ==
    /\ variant \in {"app.js", "part_000"}
    /\ openai = TRUE
    /\ cursos = LoadCursos(variant, CLOSED_FILE)
    /\ sessions = <<>>
    /\ handlers = <<>>
    /\ call = NoCall

NextClosed ==
    \/ \E e \in ClosedEvents :
          /\ Len(handlers) < MaxMsgs
          /\ InFlight < MaxInFlight
          /\ Receive(e.from, e.fromMe, e.body)
    \/ \E h \in DOMAIN handlers, content \in TurnContents : BackendReturn(h, content)
    \/ \E h \in DOMAIN handlers : BackendFailures < MaxBackendFailures /\ BackendFail(h)
    \/ \E h \in DOMAIN handlers : ReplySent(h)
    \/ \E h \in DOMAIN handlers : ReplyFailures < MaxReplyFailures /\ ReplyFail(h)

SpecClosed == InitClosed /\ [][NextClosed]_vars

(***************************************************************************)
(* The text utilities, called on bounded sets of arguments after the load  *)
(* of a catalog.                                                           *)
(***************************************************************************)
InitUtil ==
    /\ variant \in {"app.js", "part_000"}
    /\ openai = TRUE
    /\ \E file \in UtilCatalogFiles : cursos = LoadCursos(variant, file)
    /\ sessions = <<>>
    /\ handlers = <<>>
    /\ call = NoCall

NextUtil ==
    \/ \E s \in UtilTexts : CallNormalize(s)
    \/ \E s \in UtilTexts : CallSanitize(s)
    \/ \E a \in Phrases, b \in Phrases : CallJaccard(a, b)
    \/ \E query \in Phrases, title \in Phrases : CallIsDirectTitleMention(query, title)
    \/ \E query \in UtilQueries, k \in 0..MaxK : CallTopMatchesByTitle(<<cursos, query, k>>)
    \/ \E query \in UtilQueries : CallTopMatchesByTitle(<<cursos, query>>)
    \/ \E userMessage \in UtilQueries : CallCandidates(userMessage)
    \/ \E rawAi \in UtilReplies : CallPostProcess(rawAi)

SpecUtil == InitUtil /\ [][NextUtil]_vars

InitCtx ==
    /\ variant \in {"app.js", "part_000"}
    /\ openai \in BOOLEAN
    /\ \E file \in CtxFiles : cursos = LoadCursos(variant, file)
    /\ sessions = <<>>
    /\ handlers = <<>>
    /\ call = NoCall

NextCtx == CallContextoCursos

SpecCtx == InitCtx /\ [][NextCtx]_vars
(***************************************************************************)
(* Properties.                                                             *)
(***************************************************************************)
Chats == {"chatA", "chatB"}

\* the history and the stored course of a conversation in a session map
HistoryOf(ss, chat) == IF chat \in DOMAIN ss THEN ss[chat].history ELSE <<>>

SuggestedOf(ss, chat) == IF chat \in DOMAIN ss THEN ss[chat].lastSuggestedCourse ELSE <<>>

StoredUrl(ss, chat) ==
    IF SuggestedOf(ss, chat) = <<>> THEN <<>> ELSE SuggestedOf(ss, chat)[1].formulario

\* the message of handler record m is not ignored
NotIgnored(m) == ~m.fromMe /\ trimOf(m.body) # <<>>

\* the user turn recorded for the message of handler record m
UserTurn(m) == Turn("user", userTextOf(trimOf(m.body)))

\* the closed states of the specification, and its eligible states
CLOSED_STATES == {EN_CURSO, FINALIZADO, CUPO_COMPLETO}

OFFERABLE_STATES == {PROXIMO, INSCRIPCION_ABIERTA, ULTIMOS_CUPOS}

\* the catalog courses in a closed state whose title the text directly mentions
ClosedMentions(text) ==
    {i \in DOMAIN cursos :
        cursos[i].estado \in CLOSED_STATES /\ mentionOf(text, cursos[i].titulo)}

\* the step is the arrival of message h: its handler has run up to its first await
Arrives(h) == h = Len(handlers) + 1 /\ Len(handlers') = h

\* list ends with the entries tail
EndsWith(list, tail) ==
    Len(tail) <= Len(list) /\ SubSeq(list, Len(list) - Len(tail) + 1, Len(list)) = tail

\* C1: every non-ignored message that directly mentions the title of a course
\* whose state is en_curso, finalizado or cupo_completo is answered by rule 1:
\* the reply names that course, carries no link, and the user turn and the
\* reply are appended to the history of the conversation.
C1_ClosedMentionGetsTemplate ==
    [][\A h \in DOMAIN handlers' :
          LET m == handlers'[h]
              text == trimOf(m.body)
          IN  (Arrives(h) /\ NotIgnored(m) /\ ClosedMentions(text) # {}) =>
                 /\ m.path = "rule1"
                 /\ \E i \in ClosedMentions(text) : Includes(m.out, cursos[i].titulo)
                 /\ ~Includes(m.out, <<"h", "t", "t", "p">>)
                 /\ EndsWith(HistoryOf(sessions', m.from),
                             <<UserTurn(m), Turn("assistant", clamp(m.out))>>)]_vars

\* C2: a backend call is started for a message only when neither rule fires
\* for it: no closed course is the target of rule 1, and the follow-up pattern
\* does not meet a stored form.
C2_NoBackendCallWhenRuleFires ==
    [][\A h \in DOMAIN handlers' :
          LET m == handlers'[h]
              text == trimOf(m.body)
          IN  (Arrives(h) /\ (m.pc = "calling" \/ m.messages # <<>> \/ m.path = "gen")) =>
                 /\ duroTarget(variant, cursos, text) = 0
                 /\ ~(followUpOf(text) /\ StoredUrl(sessions, m.from) # <<>>)]_vars

C2_Witness ==
    \E h \in DOMAIN handlers, g \in DOMAIN handlers :
        /\ handlers[h].path = "rule1" /\ handlers[h].pc = "done"
        /\ handlers[h].replied = <<handlers[h].out>>
        /\ handlers[g].path = "gen" /\ handlers[g].pc = "done"

\* C3: a message that directly mentions a closed course and matches the
\* follow-up pattern while a form is stored gets the reply of rule 1, never
\* the shortcut "Formulario de inscripción: ...".
C3_ClosedMentionBeatsShortcut ==
    [][\A h \in DOMAIN handlers' :
          LET m == handlers'[h]
              text == trimOf(m.body)
          IN  (/\ Arrives(h) /\ NotIgnored(m)
               /\ ClosedMentions(text) # {}
               /\ followUpOf(text)
               /\ StoredUrl(sessions, m.from) # <<>>) =>
                 (m.path = "rule1" /\ ~LitAt(m.out, 1, QUICK_PREFIX))]_vars

\* C4: in every backend call, each course of the catalog context and each
\* candidate of the matching hint is a course in an eligible state.
C4_OnlyEligibleInPayload ==
    \A h \in DOMAIN handlers :
        handlers[h].messages # <<>> =>
            LET contexto == handlers[h].messages[3].content
                candidates == handlers[h].messages[4].content.candidates
            IN  /\ \A i \in DOMAIN contexto : contexto[i].estado \in OFFERABLE_STATES
                /\ \A i \in DOMAIN candidates :
                      /\ \E j \in DOMAIN cursos : cursos[j].id = candidates[i].id
                      /\ \A j \in DOMAIN cursos :
                            cursos[j].id = candidates[i].id =>
                               cursos[j].estado \in OFFERABLE_STATES

C4_Witness ==
    \E h \in DOMAIN handlers :
        /\ handlers[h].pc = "calling"
        /\ handlers[h].messages[3].content # <<>>
        /\ handlers[h].messages[4].content.candidates # <<>>
        /\ \E j \in DOMAIN cursos : cursos[j].estado \notin OFFERABLE_STATES

\* the step records the exchange of message h: a rule replies to it, or its
\* generated reply arrives
Records(h) ==
    \/ Arrives(h) /\ handlers'[h].path \in {"rule1", "rule2"}
    \/ h \in DOMAIN handlers /\ handlers[h].pc = "calling" /\ handlers'[h].pc = "replyingGen"

\* C5: after every step the history of every conversation holds at most 6
\* entries; a step that records an exchange leaves it as the newest two
\* entries, and a step that changes the history keeps, of the entries it had,
\* the newest ones: entries are dropped only when the history is full, and
\* from the oldest end.
C5_HistoryBounded ==
    [][/\ \A chat \in Chats :
             LET old == HistoryOf(sessions, chat)
                 new == HistoryOf(sessions', chat)
                 kept == Len(new) - 2
             IN  /\ Len(new) <= 6
                 /\ new # old =>
                       /\ kept >= 0 /\ kept <= Len(old)
                       /\ SubSeq(new, 1, kept) = SubSeq(old, Len(old) - kept + 1, Len(old))
                       /\ (kept < Len(old) => Len(new) = 6)
       /\ \A h \in DOMAIN handlers' :
             Records(h) =>
                EndsWith(HistoryOf(sessions', handlers'[h].from),
                         <<UserTurn(handlers'[h]),
                           Turn("assistant", clamp(handlers'[h].out))>>)]_vars

C5_Witness ==
    /\ Len(handlers) = 4
    /\ \A h \in DOMAIN handlers :
          /\ handlers[h].from = "chatA"
          /\ handlers[h].pc = "done"
          /\ handlers[h].failed = "no"
    /\ \E h \in DOMAIN handlers : handlers[h].path = "rule1"
    /\ \E h \in DOMAIN handlers : handlers[h].path = "rule2"
    /\ \E h \in DOMAIN handlers : handlers[h].path = "gen"
    /\ Len(sessions["chatA"].history) = 6
    /\ sessions["chatA"].history[5] = UserTurn(handlers[4])

\* C6: a non-ignored message for which rule 1 does not fire, which matches the
\* follow-up pattern while the conversation stores a form u, is answered with
\* exactly "Formulario de inscripción: u", u being the stored one, and the user
\* turn and that reply are appended to the history.
C6_FollowUpShortcut ==
    [][\A h \in DOMAIN handlers' :
          LET m == handlers'[h]
              text == trimOf(m.body)
              u == StoredUrl(sessions, m.from)
          IN  (/\ Arrives(h) /\ NotIgnored(m)
               /\ duroTarget(variant, cursos, text) = 0
               /\ followUpOf(text)
               /\ u # <<>>) =>
                 /\ m.path = "rule2"
                 /\ m.out = <<"F", "o", "r", "m", "u", "l", "a", "r", "i", "o", " ", "d", "e", " ", "i", "n", "s", "c", "r", "i", "p", "c", "i", "ó", "n", ":", " ">> \o u
                 /\ m.pc = "replying"
                 /\ HistoryOf(sessions', m.from) =
                       LastN(HistoryOf(sessions, m.from)
                               \o <<UserTurn(m), Turn("assistant", clamp(m.out))>>, 6)
                 /\ SuggestedOf(sessions', m.from) = SuggestedOf(sessions, m.from)]_vars

C6_Witness ==
    \E h \in DOMAIN handlers :
        /\ handlers[h].path = "rule2"
        /\ handlers[h].pc = "done"
        /\ handlers[h].replied =
              << <<"F", "o", "r", "m", "u", "l", "a", "r", "i", "o", " ", "d", "e", " ", "i", "n", "s", "c", "r", "i", "p", "c", "i", "ó", "n", ":", " ", "h", "t", "t", "p", "s", ":", "/", "/", "d", "o", "c", "s", ".", "g", "o", "o", "g", "l", "e", ".", "c", "o", "m", "/", "f", "o", "r", "m", "s", "/", "g", "2">> >>
        /\ \A j \in DOMAIN cursos : cursos[j].formulario # <<"h", "t", "t", "p", "s", ":", "/", "/", "d", "o", "c", "s", ".", "g", "o", "o", "g", "l", "e", ".", "c", "o", "m", "/", "f", "o", "r", "m", "s", "/", "g", "2">>

\* the course the capture reads in a raw reply that holds a form link
\* the raw reply rawAi holds a registration link
HasLink(rawAi) == rawAi # <<>> /\ matchOf("form", rawAi) # <<>>

Extracted(rawAi) ==
    LET link == matchOf("form", rawAi)
        strong == matchOf("strong", rawAi)
    IN  [titulo |-> IF strong = <<>> THEN <<>> ELSE trim(strong[1]),
         formulario |-> trim(link[1])]

\* C7: when the handler of a message whose raw reply holds a registration link
\* finishes, the stored course of the conversation is the title and the link
\* of that raw reply.
C7_StoredCourseAtFinish ==
    [][\A h \in DOMAIN handlers :
          (/\ handlers[h].pc # "done" /\ handlers'[h].pc = "done"
           /\ handlers[h].path = "gen"
           /\ HasLink(handlers[h].rawAi)) =>
             SuggestedOf(sessions', handlers[h].from) = <<Extracted(handlers[h].rawAi)>>]_vars

\* C8: the stored course of a conversation changes only in the step in which
\* a generated reply holding a registration link arrives for that
\* conversation, and it never goes back to empty.
C8_StoredCourseFrame ==
    [][\A chat \in Chats :
          LET old == SuggestedOf(sessions, chat)
              new == SuggestedOf(sessions', chat)
          IN  /\ old # <<>> => new # <<>>
              /\ new # old =>
                    \E h \in DOMAIN handlers :
                        /\ handlers[h].from = chat
                        /\ handlers[h].pc = "calling"
                        /\ handlers'[h].pc = "replyingGen"
                        /\ HasLink(handlers'[h].rawAi)
                        /\ new = <<Extracted(handlers'[h].rawAi)>>]_vars

C8_Witness ==
    \E h \in DOMAIN handlers, g \in DOMAIN handlers :
        /\ h < g
        /\ handlers[h].from = handlers[g].from
        /\ handlers[h].pc = "done" /\ handlers[g].pc = "done"
        /\ HasLink(handlers[h].rawAi)
        /\ handlers[g].path = "gen" /\ handlers[g].failed = "no"
        /\ handlers[g].rawAi # <<>> /\ ~HasLink(handlers[g].rawAi)
        /\ SuggestedOf(sessions, handlers[h].from) = <<Extracted(handlers[h].rawAi)>>

\* C9: once the backend call of a message has failed, the handler is in its
\* catch block: the only text it hands to the transport is the fixed apology,
\* it sends nothing else, and it ends rejected only if the transport itself
\* fails to send the apology.
C9_BackendFailureCaught ==
    \A h \in DOMAIN handlers :
        handlers[h].failed = "backend" =>
            /\ handlers[h].out = APOLOGY
            /\ handlers[h].pc \in {"apologising", "done", "rejected"}
            /\ handlers[h].pc = "done" => handlers[h].replied = <<APOLOGY>>
            /\ handlers[h].pc # "done" => handlers[h].replied = <<>>
            /\ handlers[h].pc = "rejected" => handlers[h].replyErrors > 0

C9_Witness ==
    \E h \in DOMAIN handlers, g \in DOMAIN handlers :
        /\ h < g
        /\ handlers[h].failed = "backend" /\ handlers[h].pc = "done"
        /\ handlers[h].replied = <<APOLOGY>>
        /\ handlers[g].from = handlers[h].from
        /\ handlers[g].path = "gen" /\ handlers[g].failed = "no" /\ handlers[g].pc = "done"

\* C10 as stated: after a backend failure the history of the conversation
\* records the user turn of the failed message.
C10_UserTurnRecorded ==
    \A h \in DOMAIN handlers :
        (handlers[h].failed = "backend" /\ handlers[h].pc = "done") =>
            \E i \in DOMAIN HistoryOf(sessions, handlers[h].from) :
                HistoryOf(sessions, handlers[h].from)[i] = UserTurn(handlers[h])

\* C10 amended: no step of a handler whose backend call fails changes the
\* history or the stored course of any conversation: neither the user turn
\* nor an assistant turn is recorded for the failed attempt.
C10_FailureLeavesHistory ==
    [][\A h \in DOMAIN handlers' :
          LET m == handlers'[h]
              own == IF h \in DOMAIN handlers THEN handlers[h] # m ELSE TRUE
          IN  (own /\ (m.failed = "backend" \/ (Arrives(h) /\ m.path = "gen"))) =>
                 \A chat \in Chats :
                    /\ HistoryOf(sessions', chat) = HistoryOf(sessions, chat)
                    /\ SuggestedOf(sessions', chat) = SuggestedOf(sessions, chat)]_vars

C10_Witness ==
    \E h \in DOMAIN handlers, g \in DOMAIN handlers :
        /\ g < h
        /\ handlers[h].from = handlers[g].from
        /\ handlers[g].pc = "done" /\ handlers[g].path = "gen" /\ handlers[g].failed = "no"
        /\ handlers[h].failed = "backend" /\ handlers[h].pc = "done"
        /\ Len(HistoryOf(sessions, handlers[h].from)) = 2
        /\ HistoryOf(sessions, handlers[h].from)[1] = UserTurn(handlers[g])

\* C11: when the backend is not configured, every message that is not ignored
\* is answered with the fixed unavailability text and with nothing else, no
\* message list is built and no backend call is started for it, and its
\* handler ends once the reply has been handed to the transport.
C11_UnavailableReply ==
    ~openai =>
        \A h \in DOMAIN handlers :
            NotIgnored(handlers[h]) =>
                /\ handlers[h].path = "unavailable"
                /\ handlers[h].out = UNAVAILABLE
                /\ handlers[h].messages = <<>>
                /\ handlers[h].rawAi = <<>>
                /\ handlers[h].failed = "no"
                /\ handlers[h].pc \in {"replying", "done", "rejected"}
                /\ handlers[h].pc = "done" => handlers[h].replied = <<UNAVAILABLE>>
                /\ handlers[h].pc = "rejected" => handlers[h].replyErrors > 0

C11_Witness ==
    /\ ~openai
    /\ \E h \in DOMAIN handlers :
          /\ NotIgnored(handlers[h])
          /\ handlers[h].pc = "done"
          /\ handlers[h].replied = <<UNAVAILABLE>>

\* every character of the body is white space
Blank(body) == \A i \in DOMAIN body : IsSpace(body[i])

\* C12: an event sent by the bot itself, or whose body is nothing but white
\* space, is ignored: its handler returns at once, hands nothing to the
\* transport, builds no message list, and the step of its arrival leaves the
\* session map as it was, with no entry added and no entry changed.
C12_IgnoredLeavesNoTrace ==
    [][\A h \in DOMAIN handlers' :
          LET m == handlers'[h]
          IN  (m.fromMe \/ Blank(m.body)) =>
                 /\ m.pc = "ignored"
                 /\ m.path = "none"
                 /\ m.out = <<>>
                 /\ m.replied = <<>>
                 /\ m.messages = <<>>
                 /\ Arrives(h) => sessions' = sessions]_vars

C12_Witness ==
    \E h \in DOMAIN handlers :
        /\ ~handlers[h].fromMe
        /\ Blank(handlers[h].body)
        /\ handlers[h].pc = "ignored"
        /\ HistoryOf(sessions, handlers[h].from) # <<>>

\* C13: a message of a conversation whose handler reads or changes the state
\* of the conversation arrives only when no earlier handler of the same
\* conversation is still suspended at the backend call or at a reply.
C13_OneAtATime ==
    [][\A h \in DOMAIN handlers' :
          (Arrives(h) /\ handlers'[h].path \in {"rule1", "rule2", "gen"}) =>
              \A g \in DOMAIN handlers :
                  handlers[g].from = handlers'[h].from => handlers[g].pc \notin Suspended]_vars

\* the conversations whose state a handler has looked up
Contacted(hs) == {hs[h].from : h \in {g \in DOMAIN hs : hs[g].path \in {"rule1", "rule2", "gen"}}}

\* handler h takes part in the step
Acts(h) == h \notin DOMAIN handlers \/ handlers'[h] # handlers[h]

\* C14: in every step, under every interleaving, the session map holds one
\* entry for each conversation a handler has looked up and for no other, an
\* entry once made stays, the entry of a conversation changes only in a step
\* of a handler of that conversation, and what a handler reads (the history
\* it sends to the backend, the form of the shortcut reply) is the history
\* and the stored course of its own conversation.
C14_ConversationsIsolated ==
    [][/\ DOMAIN sessions' = Contacted(handlers')
       /\ \A chat \in Chats :
             /\ chat \in DOMAIN sessions => chat \in DOMAIN sessions'
             /\ (chat \in DOMAIN sessions'
                  /\ (chat \notin DOMAIN sessions \/ sessions'[chat] # sessions[chat])) =>
                     \E h \in DOMAIN handlers' : Acts(h) /\ handlers'[h].from = chat
       /\ \A h \in DOMAIN handlers' :
             LET m == handlers'[h]
             IN  /\ (Arrives(h) /\ m.path = "gen") =>
                        SubSeq(m.messages, 5, Len(m.messages) - 1)
                            = LastN(HistoryOf(sessions, m.from), MAX_HISTORY)
                 /\ (Arrives(h) /\ m.path = "rule2") =>
                        m.out = QUICK_PREFIX \o StoredUrl(sessions, m.from)]_vars

C14_Witness ==
    \E h \in DOMAIN handlers, g \in DOMAIN handlers :
        /\ handlers[h].from # handlers[g].from
        /\ handlers[h].pc = "calling"
        /\ handlers[g].pc = "calling"
        /\ DOMAIN sessions = Chats

\* the courses of list, as a set
Members(list) == {list[i] : i \in DOMAIN list}

\* C15: a course of the loaded catalog is in the eligible subset exactly when
\* its state is proximo, inscripcion_abierta or ultimos_cupos.
C15_EligibleByState ==
    \A i \in DOMAIN cursos :
        cursos[i] \in Members(exhibiblesOf(variant, cursos))
            <=> cursos[i].estado \in OFFERABLE_STATES

LastExchange(ss, m) ==
    EndsWith(HistoryOf(ss, m.from), <<UserTurn(m), Turn("assistant", clamp(m.out))>>)

\* C17: on the rule paths the step that hands the reply to the transport has
\* already appended the exchange to the history; on the generative path the
\* reply is handed over only in the step in which the backend call returns,
\* and in that step the stored course is what the raw text holds, the reply
\* is the rewritten text, free of markup, and the history ends with it; the
\* reply reaches the user only in a later step, which changes no memory.
C17_UpdateBeforeReply ==
    [][\A h \in DOMAIN handlers' :
          LET m == handlers'[h]
          IN  /\ (Arrives(h) /\ m.path \in {"rule1", "rule2"}) =>
                     /\ m.pc = "replying"
                     /\ m.replied = <<>>
                     /\ LastExchange(sessions', m)
              /\ (m.pc = "replyingGen" /\ (h \notin DOMAIN handlers \/ handlers[h].pc # "replyingGen")) =>
                     /\ h \in DOMAIN handlers
                     /\ handlers[h].pc = "calling"
                     /\ handlers[h].messages # <<>>
                     /\ m.rawAi # <<>>
                     /\ HasLink(m.rawAi) => SuggestedOf(sessions', m.from) = <<Extracted(m.rawAi)>>
                     /\ m.out = postProcessOf(m.rawAi)
                     /\ ~Includes(m.out, <<"<">>)
                     /\ LastExchange(sessions', m)
                     /\ m.replied = <<>>
              /\ (h \in DOMAIN handlers /\ m.replied # handlers[h].replied) =>
                     /\ handlers[h].pc \in {"replying", "replyingGen", "apologising"}
                     /\ m.replied = <<handlers[h].out>>
                     /\ sessions' = sessions]_vars

C17_Witness ==
    \E h \in DOMAIN handlers :
        /\ handlers[h].path = "gen"
        /\ handlers[h].pc = "done"
        /\ HasLink(handlers[h].rawAi)
        /\ handlers[h].out # handlers[h].rawAi
        /\ handlers[h].replied = <<handlers[h].out>>
        /\ LastExchange(sessions, handlers[h])
        /\ SuggestedOf(sessions, handlers[h].from) = <<Extracted(handlers[h].rawAi)>>

\* C18: the list handed to the backend when no rule fires is the fixed
\* instructions, the data marker, the catalog context, the candidate hints,
\* the history of the conversation as it was when the message arrived (at
\* most 6 entries, in order) and, last, one user entry with the sanitized
\* and clamped text of the message.
C18_MessageList ==
    [][\A h \in DOMAIN handlers' :
          LET m == handlers'[h]
              ms == m.messages
              hist == HistoryOf(sessions, m.from)
              text == trimOf(m.body)
          IN  (Arrives(h) /\ m.path = "gen") =>
                 /\ Len(hist) <= MAX_HISTORY
                 /\ Len(ms) = 4 + Len(hist) + 1
                 /\ ms[1] = Turn("system", <<"systemPrompt">>)
                 /\ ms[2] = Turn("system", DATA_MARKER)
                 /\ ms[3] = Turn("system", contextoCursos(variant, cursos))
                 /\ ms[4] = Turn("system",
                               [hint |-> HINT,
                                candidates |->
                                    candidatesOf(cursosExhibibles(variant, cursos), text)])
                 /\ SubSeq(ms, 5, 4 + Len(hist)) = hist
                 /\ ms[Len(ms)] = Turn("user", clamp(sanitize(text)))
                 /\ Len(ms[Len(ms)].content) <= CLAMP_MAX + 1]_vars

C18_Witness ==
    \E h \in DOMAIN handlers :
        /\ handlers[h].pc = "calling"
        /\ Len(handlers[h].messages) = 7
        /\ handlers[h].messages[5].role = "user"
        /\ handlers[h].messages[6].role = "assistant"
        /\ handlers[h].messages[7] = UserTurn(handlers[h])
        /\ Len(handlers[h].body) > CLAMP_MAX
        /\ Len(handlers[h].messages[7].content) = CLAMP_MAX + 1
        /\ handlers[h].messages[3].content # <<>>

\* the courses of the catalog in one of the three eligible states, in catalog order
Offerable(cs) == SelectSeq(cs, LAMBDA c : c.estado \in OFFERABLE_STATES)

\* C19: the catalog context is the list of all the eligible courses when its
\* serialization has at most 18,000 characters, and else the first 40 of
\* them (all of them when they are fewer).
C19_ContextWithinBudget ==
    contextoOf(variant, cursos) =
        IF SerializedLen(Offerable(cursos)) <= 18000
        THEN Offerable(cursos)
        ELSE SubSeq(Offerable(cursos), 1,
                    IF Len(Offerable(cursos)) < 40 THEN Len(Offerable(cursos)) ELSE 40)

\* C20 as stated: with an empty catalog every message that is not ignored,
\* the backend being configured, goes to the backend with an empty context.
C20_BackendAlwaysInvoked ==
    [][\A h \in DOMAIN handlers' :
          LET m == handlers'[h]
          IN  (Arrives(h) /\ cursos = <<>> /\ openai /\ NotIgnored(m)) =>
                 /\ m.pc = "calling"
                 /\ m.messages # <<>>
                 /\ m.messages[3].content = <<>>]_vars

\* C20: with an empty catalog rule 1 fires for no message; a message that is
\* not ignored, the backend being configured, goes to the backend with an
\* empty catalog context and an empty candidate list unless the follow-up
\* shortcut answers it; and no handler ends rejected unless the transport
\* failed to send a reply.
C20_EmptyCatalogDegrades ==
    [][cursos = <<>> =>
          \A h \in DOMAIN handlers' :
              LET m == handlers'[h]
                  text == trimOf(m.body)
              IN  /\ m.path # "rule1"
                  /\ (Arrives(h) /\ openai /\ NotIgnored(m)
                       /\ ~(followUpRE(text) /\ StoredUrl(sessions, m.from) # <<>>)) =>
                          /\ m.path = "gen"
                          /\ m.pc = "calling"
                          /\ m.messages # <<>>
                          /\ m.messages[3].content = <<>>
                          /\ m.messages[4].content.candidates = <<>>
                  /\ m.pc = "rejected" => m.replyErrors > 0]_vars

C20_Witness ==
    /\ cursos = <<>>
    /\ openai
    /\ \E h \in DOMAIN handlers :
          /\ handlers[h].path = "gen"
          /\ handlers[h].failed = "no"
          /\ handlers[h].pc = "done"
          /\ handlers[h].replied = <<handlers[h].out>>


(***************************************************************************)
(* The text utilities (SpecUtil).                                          *)
(***************************************************************************)
Called(fn) == call.fn = fn

\* the two thresholds on the tokens of a normalized query q and title t
TokenClose(q, t) ==
    LET inter == Cardinality(Tokens(q) \cap Tokens(t))
        uni == Cardinality(Tokens(q) \cup Tokens(t))
    IN  /\ uni > 0
        /\ \/ inter * 100 >= 72 * uni
           \/ (inter >= 2 /\ inter * 100 >= 55 * uni)

SubstringOrClose(q, t) == Includes(q, t) \/ TokenClose(q, t)

\* C21, as stated: isDirectTitleMention(query, title) is true exactly when
\* the normalized query contains the normalized title as a substring or the
\* Jaccard index j and the intersection count inter of their tokens satisfy
\* j >= 0.72 or (inter >= 2 and j >= 0.55), for every query and title.
C21_SubstringOrClose ==
    Called("isDirectTitleMention") =>
        (call.result <=> SubstringOrClose(normalize(call.args[1]), normalize(call.args[2])))

\* C21, amended: the same when the normalized query and the normalized
\* title are both non-empty; the answer is false when either is empty, even
\* though the empty title is a substring of every query.
C21_NonEmptySubstringOrClose ==
    Called("isDirectTitleMention") =>
        (call.result <=>
            /\ normalize(call.args[1]) # <<>>
            /\ normalize(call.args[2]) # <<>>
            /\ SubstringOrClose(normalize(call.args[1]), normalize(call.args[2])))

\* a mention accepted by the second threshold only: two common tokens, j = 2/3
C21_Witness ==
    /\ Called("isDirectTitleMention")
    /\ call.result = TRUE
    /\ ~Includes(normalize(call.args[1]), normalize(call.args[2]))
    /\ Cardinality(Tokens(normalize(call.args[1])) \cap Tokens(normalize(call.args[2]))) = 2
    /\ Cardinality(Tokens(normalize(call.args[1])) \cup Tokens(normalize(call.args[2]))) = 3

\* the score of course c for a query: the similarity of its title and the
\* normalized query
ScoreOf(c, query) == jaccard(c.titulo, normalize(query))

\* in the ranking of pool for a query, the course at position i comes before
\* the course at position j: a greater score, or the same score and i < j
RanksBefore(pool, query, i, j) ==
    \/ ScoreGreater(ScoreOf(pool[i], query), ScoreOf(pool[j], query))
    \/ (~ScoreGreater(ScoreOf(pool[j], query), ScoreOf(pool[i], query)) /\ i < j)

\* result is the first k entries of the ranking of pool
IsTopK(result, pool, query, k) ==
    /\ Len(result) = IF k < Len(pool) THEN k ELSE Len(pool)
    /\ \E p \in [DOMAIN result -> DOMAIN pool] :
          /\ \A i \in DOMAIN result :
                result[i] = [id |-> pool[p[i]].id, titulo |-> pool[p[i]].titulo,
                             score |-> ScoreOf(pool[p[i]], query)]
          /\ \A i \in DOMAIN result, j \in DOMAIN result :
                i < j => RanksBefore(pool, query, p[i], p[j])
          /\ \A i \in DOMAIN result, m \in DOMAIN pool \ {p[j] : j \in DOMAIN result} :
                RanksBefore(pool, query, p[i], m)

\* C22: topMatchesByTitle(courses, query, k) returns the min(k, number of
\* courses) entries {id, titulo, score} of highest similarity between the
\* normalized query and the title, by non-increasing score with ties in
\* catalog order, k being 3 when it is not given; the handler's candidates
\* are at most 3 entries, in that order, of courses in an eligible state.
C22_TopMatches ==
    /\ Called("topMatchesByTitle") =>
          IsTopK(call.result, call.args[1], call.args[2],
                 IF Len(call.args) = 2 THEN 3 ELSE call.args[3])
    /\ Called("candidates") =>
          /\ Len(call.result) <= 3
          /\ \A i \in DOMAIN call.result :
                \E n \in DOMAIN cursos :
                    /\ cursos[n].id = call.result[i].id
                    /\ cursos[n].estado \in OFFERABLE_STATES
                    /\ call.result[i].score = ScoreOf(cursos[n], call.args[1])
          /\ \A i \in DOMAIN call.result, j \in DOMAIN call.result :
                i < j => ~ScoreGreater(call.result[j].score, call.result[i].score)

\* k not given, more than three courses, and a tie at the top
C22_Witness ==
    /\ Called("topMatchesByTitle")
    /\ Len(call.args) = 2
    /\ Len(call.args[1]) > 3
    /\ Len(call.result) = 3
    /\ call.result[1].score = call.result[2].score
    /\ call.result[1].id < call.result[2].id
    /\ ScoreGreater(call.result[2].score, call.result[3].score)

\* the token set of a text
TokenSet(a) == Tokens(normalize(a))

\* symmetric, within [0, 1], 0 when a token set is empty, and the
\* intersection over the union otherwise (the fraction is <<num, den>>)
SimilarityLaws ==
    /\ call.result[2] > 0
    /\ call.result[1] >= 0
    /\ call.result[1] <= call.result[2]
    /\ call.result[1] * jaccard(call.args[2], call.args[1])[2]
          = jaccard(call.args[2], call.args[1])[1] * call.result[2]
    /\ (TokenSet(call.args[1]) = {} \/ TokenSet(call.args[2]) = {}) => call.result[1] = 0
    /\ (TokenSet(call.args[1]) # {} /\ TokenSet(call.args[2]) # {}) =>
          call.result[1] * Cardinality(TokenSet(call.args[1]) \cup TokenSet(call.args[2]))
             = Cardinality(TokenSet(call.args[1]) \cap TokenSet(call.args[2])) * call.result[2]

\* C23, as stated: similarity(a, b) = similarity(b, a), the result lies in
\* [0, 1], it is 0 when either token set is empty, and similarity(a, a) = 1
\* for any non-empty a.
C23_SimilarityOfNonEmpty ==
    Called("jaccard") =>
        /\ SimilarityLaws
        /\ (call.args[1] = call.args[2] /\ call.args[1] # <<>>) => call.result[1] = call.result[2]

\* C23, amended: the same, with similarity(a, a) = 1 for any a whose token
\* set is not empty (a text without a letter or a digit has similarity 0
\* with itself).
C23_SimilarityOfTokens ==
    Called("jaccard") =>
        /\ SimilarityLaws
        /\ (call.args[1] = call.args[2] /\ TokenSet(call.args[1]) # {}) =>
              call.result[1] = call.result[2]
        /\ (call.args[1] = call.args[2] /\ TokenSet(call.args[1]) = {}) => call.result[1] = 0

\* a text of several tokens compared with itself
C23_Witness ==
    /\ Called("jaccard")
    /\ call.args[1] = call.args[2]
    /\ Cardinality(TokenSet(call.args[1])) > 1
    /\ call.result[1] = call.result[2]

\* the characters sanitize looks for: backtick, asterisk, underscore, angle
\* brackets and braces
MarkupChars == {"U+0060", "*", "_", "<", ">", "{", "}"}

NoRawMarkup(s) == \A i \in DOMAIN s : s[i] \notin MarkupChars

\* C24: whatever the raw catalog text ('<script>', backticks, asterisks), the
\* sanitized field of the loaded course contains none of the characters
\* backtick, asterisk, underscore, angle bracket and brace: all of them are
\* neutralized by sanitize.
C24_FieldsNeutralized ==
    /\ \A n \in DOMAIN cursos : NoRawMarkup(cursos[n].titulo)
    /\ Called("sanitize") => NoRawMarkup(call.result)

\* C25: normalize is idempotent and total: normalize(normalize(x)) is
\* normalize(x) for every text x, and the empty text gives the empty text.
C25_NormalizeIdempotent ==
    Called("normalize") =>
        /\ normalize(call.result) = call.result
        /\ call.args[1] = <<>> => call.result = <<>>

\* a text with capitals, accents, punctuation and runs of spaces
C25_Witness ==
    /\ Called("normalize")
    /\ \E i \in DOMAIN call.args[1] : call.args[1][i] \in DOMAIN LowerOf
    /\ \E i \in DOMAIN call.args[1] : call.args[1][i] \in DOMAIN BaseOf
    /\ \E i \in DOMAIN call.args[1] : KeepOrSpace(call.args[1][i]) # call.args[1][i]
    /\ Len(call.result) > 3
    /\ call.result # call.args[1]

CanonicalStates == {PROXIMO, INSCRIPCION_ABIERTA, ULTIMOS_CUPOS, EN_CURSO, FINALIZADO, CUPO_COMPLETO}

\* C26: at load time every synonym or casing variant of an enrollment state
\* collapses to its canonical value, so the state of each loaded course is
\* one of the six canonical values, and the eligibility filter keeps the
\* course exactly when that value is proximo, inscripcion_abierta or
\* ultimos_cupos.
C26_StatesCollapse ==
    \A n \in DOMAIN cursos :
        /\ cursos[n].estado \in CanonicalStates
        /\ isEligible(variant, cursos[n]) <=> cursos[n].estado \in OFFERABLE_STATES

\* a text cut to 1,200 characters and an ellipsis when it is longer
CutTo1200(t) == IF Len(t) <= 1200 THEN t ELSE SubSeq(t, 1, 1200) \o <<"U+2026">>

\* C27: every entry stored in a history has at most 1,200 characters
\* followed by at most one ellipsis; the step that records an exchange
\* stores the sanitized user text and the reply text each cut on its own,
\* and a text of 1,200 characters or fewer is stored as it is.
C27_EntriesClamped ==
    [][/\ \A chat \in DOMAIN sessions' :
             \A i \in DOMAIN sessions'[chat].history :
                 /\ Len(sessions'[chat].history[i].content) <= 1201
                 /\ Len(sessions'[chat].history[i].content) = 1201 =>
                        sessions'[chat].history[i].content[1201] = "U+2026"
       /\ \A h \in DOMAIN handlers' :
             Records(h) =>
                 EndsWith(HistoryOf(sessions', handlers'[h].from),
                          << Turn("user", CutTo1200(sanitizeOf(trimOf(handlers'[h].body)))),
                             Turn("assistant", CutTo1200(handlers'[h].out)) >>)]_vars

\* a history with a user text of exactly 1,200 characters, stored whole,
\* and a reply of more than 1,200, stored cut
C27_Witness ==
    \E chat \in DOMAIN sessions :
        \E i \in DOMAIN sessions[chat].history, j \in DOMAIN sessions[chat].history :
            /\ sessions[chat].history[i].role = "user"
            /\ sessions[chat].history[i].content = EXACT_BODY
            /\ sessions[chat].history[j].role = "assistant"
            /\ Len(sessions[chat].history[j].content) = 1201

\* links as a backend output may write them: the markup, its text, its URL
WrittenLinks ==
    { [written |-> <<"[", "e", "l", " ", "f", "o", "r", "m", "u", "l", "a", "r", "i", "o", "]", "(", "h", "t", "t", "p", "s", ":", "/", "/", "f", "o", "r", "m", "s", ".", "g", "l", "e", "/", "g", "a", "s", ")">>,
       text |-> <<"e", "l", " ", "f", "o", "r", "m", "u", "l", "a", "r", "i", "o">>, url |-> <<"h", "t", "t", "p", "s", ":", "/", "/", "f", "o", "r", "m", "s", ".", "g", "l", "e", "/", "g", "a", "s">>],
      [written |-> <<"<", "a", " ", "h", "r", "e", "f", "=", "\"", "h", "t", "t", "p", "s", ":", "/", "/", "f", "o", "r", "m", "s", ".", "g", "l", "e", "/", "g", "a", "s", "\"", ">", "i", "n", "s", "c", "r", "i", "b", "i", "r", "t", "e", "<", "/", "a", ">">>,
       text |-> <<"i", "n", "s", "c", "r", "i", "b", "i", "r", "t", "e">>, url |-> <<"h", "t", "t", "p", "s", ":", "/", "/", "f", "o", "r", "m", "s", ".", "g", "l", "e", "/", "g", "a", "s">>],
      [written |-> <<"<", "a", " ", "t", "a", "r", "g", "e", "t", "=", "\"", "_", "b", "l", "a", "n", "k", "\"", " ", "h", "r", "e", "f", "=", "\"", "h", "t", "t", "p", "s", ":", "/", "/", "f", "o", "r", "m", "s", ".", "g", "l", "e", "/", "g", "a", "s", "\"", ">", "i", "n", "s", "c", "r", "i", "b", "i", "r", "t", "e", "<", "/", "a", ">">>,
       text |-> <<"i", "n", "s", "c", "r", "i", "b", "i", "r", "t", "e">>, url |-> <<"h", "t", "t", "p", "s", ":", "/", "/", "f", "o", "r", "m", "s", ".", "g", "l", "e", "/", "g", "a", "s">>],
      [written |-> <<"<", "a", " ", "h", "r", "e", "f", "=", "\"", "h", "t", "t", "p", "s", ":", "/", "/", "f", "o", "r", "m", "s", ".", "g", "l", "e", "/", "p", "a", "n", "\"", ">", "<", "s", "t", "r", "o", "n", "g", ">", "P", "a", "n", "<", "/", "s", "t", "r", "o", "n", "g", ">", "<", "/", "a", ">">>,
       text |-> <<"P", "a", "n">>, url |-> <<"h", "t", "t", "p", "s", ":", "/", "/", "f", "o", "r", "m", "s", ".", "g", "l", "e", "/", "p", "a", "n">>] }

\* s holds a markup tag: "<", one character or more, ">"
HasTag(s) ==
    \E i \in DOMAIN s, j \in DOMAIN s :
        /\ s[i] = "<"
        /\ j > i + 1
        /\ s[j] = ">"
        /\ \A k \in (i + 1)..(j - 1) : s[k] # ">"

\* C28: for any backend output, every link written in markdown style
\* [text](url) or as an anchor tag is "text: url" in the final reply, with
\* its URL, and the final reply holds no markup tag.
C28_LinksRewritten ==
    Called("postProcess") =>
        /\ \A l \in WrittenLinks :
              Includes(call.args[1], l.written) =>
                  Includes(call.result, l.text \o <<":", " ">> \o l.url)
        /\ ~HasTag(call.result)

\* C29: the decision of the hard rules does not depend on the backend:
\* whether or not it is configured or available, a non-ignored message that
\* is a direct mention of a course the hard rule covers gets the template
\* of its state, and a follow-up request in a conversation with a stored
\* form gets the stored link.
C29_RulesIgnoreBackend ==
    [][\A h \in DOMAIN handlers' :
          LET m == handlers'[h]
              text == trimOf(m.body)
          IN  (Arrives(h) /\ NotIgnored(m)) =>
                 /\ duroTarget(variant, cursos, text) # 0 =>
                       /\ m.path = "rule1"
                       /\ m.out = Linea(variant, cursos[duroTarget(variant, cursos, text)])
                 /\ (/\ duroTarget(variant, cursos, text) = 0
                     /\ followUpOf(text)
                     /\ StoredUrl(sessions, m.from) # <<>>) =>
                       /\ m.path = "rule2"
                       /\ m.out = QUICK_PREFIX \o StoredUrl(sessions, m.from)]_vars

\* the message of handler h is the only one of its conversation, and the
\* reply sent for it is the fixed apology
OnlyApologised(h) ==
    /\ handlers[h].replied = <<APOLOGY>>
    /\ \A g \in DOMAIN handlers : g # h => handlers[g].from # handlers[h].from

\* C30, as stated: when the reply sent for a message is the fixed apology,
\* the history and the stored course of the conversation are what they were
\* before the message (empty, for the only message of a conversation), also
\* when it is the send of the generated reply that failed.
C30_ApologyLeavesMemory ==
    \A h \in DOMAIN handlers :
        OnlyApologised(h) =>
            /\ HistoryOf(sessions, handlers[h].from) = <<>>
            /\ SuggestedOf(sessions, handlers[h].from) = <<>>

\* C30, amended: that holds when the backend call failed; when the send of
\* the generated reply failed, the apology is sent as well, but the history
\* holds the user turn and the generated reply, and the stored course is the
\* one of the raw reply when it has a registration link.
C30_ApologyAfterBackendOrSend ==
    \A h \in DOMAIN handlers :
        OnlyApologised(h) =>
            /\ handlers[h].failed \in {"backend", "reply"}
            /\ handlers[h].failed = "backend" =>
                  /\ HistoryOf(sessions, handlers[h].from) = <<>>
                  /\ SuggestedOf(sessions, handlers[h].from) = <<>>
            /\ handlers[h].failed = "reply" =>
                  /\ HistoryOf(sessions, handlers[h].from) =
                        << UserTurn(handlers[h]),
                           Turn("assistant", clamp(postProcessOf(handlers[h].rawAi))) >>
                  /\ SuggestedOf(sessions, handlers[h].from) =
                        IF HasLink(handlers[h].rawAi) THEN <<Extracted(handlers[h].rawAi)>> ELSE <<>>

\* the apology sent after the send of a generated reply with a link failed
C30_Witness ==
    \E h \in DOMAIN handlers :
        /\ OnlyApologised(h)
        /\ handlers[h].failed = "reply"
        /\ HasLink(handlers[h].rawAi)
        /\ SuggestedOf(sessions, handlers[h].from) # <<>>

\* the reply recorded for the message of handler record m
ExchangeReply(m) == IF m.path = "gen" THEN postProcessOf(m.rawAi) ELSE m.out

\* handler record m has recorded its exchange
HasRecorded(m) == m.path \in {"rule1", "rule2"} \/ (m.path = "gen" /\ m.rawAi # <<>>)

\* C31: in every reachable state, whatever the interleaving of the handlers,
\* the history of each conversation has an even length and is made of
\* adjacent pairs, a user turn then the assistant turn of the same message:
\* the two turns of an exchange are never apart and never split by the cut
\* to 6 entries.
C31_HistoryInPairs ==
    \A chat \in DOMAIN sessions :
        /\ Len(sessions[chat].history) % 2 = 0
        /\ \A i \in DOMAIN sessions[chat].history :
              IF i % 2 = 1
              THEN /\ sessions[chat].history[i].role = "user"
                   /\ \E h \in DOMAIN handlers :
                         /\ handlers[h].from = chat
                         /\ HasRecorded(handlers[h])
                         /\ sessions[chat].history[i] = UserTurn(handlers[h])
                         /\ sessions[chat].history[i + 1] =
                               Turn("assistant", clamp(ExchangeReply(handlers[h])))
              ELSE sessions[chat].history[i].role = "assistant"

\* four exchanges recorded, the third message answered by the backend after
\* the fourth was answered by rule 1, and the oldest exchange cut off
C31_Witness ==
    /\ Len(handlers) = 4
    /\ \A h \in DOMAIN handlers : HasRecorded(handlers[h]) /\ handlers[h].from = "chatA"
    /\ handlers[3].path = "gen"
    /\ handlers[4].path = "rule1"
    /\ Len(sessions["chatA"].history) = 6
    /\ sessions["chatA"].history[3] = UserTurn(handlers[4])
    /\ sessions["chatA"].history[5] = UserTurn(handlers[3])

\* the five replies a message can get: the template of rule 1, the stored
\* link, the rewritten generated text, the unavailability message, the apology
ReplyKinds(m) ==
    IF m.path = "rule1" THEN {Linea(variant, cursos[i]) : i \in DOMAIN cursos}
    ELSE IF m.path = "rule2" THEN {QUICK_PREFIX \o cursos[i].formulario : i \in DOMAIN cursos}
                                  \cup {QUICK_PREFIX \o Extracted(r).formulario :
                                           r \in {s \in RawReplies : HasLink(s)}}
    ELSE IF m.path = "unavailable" THEN {UNAVAILABLE}
    ELSE IF m.path = "gen" /\ m.failed = "no" THEN {postProcessOf(m.rawAi)}
    ELSE IF m.path = "gen" THEN {APOLOGY}
    ELSE {}

Answered(h) ==
    /\ h \in DOMAIN handlers
    /\ handlers[h].pc = "done"
    /\ Len(handlers[h].replied) = 1

\* C32: when the backend call ends, by a result or by an error, and the
\* sends of the transport succeed, every message that is not ignored ends up
\* with exactly one reply, which is the template of rule 1, the stored link,
\* the rewritten generated text, the unavailability message or the apology;
\* an ignored message never gets a reply.
C32_ExactlyOneReply ==
    \A h \in 1..MaxMsgs :
        /\ (h \in DOMAIN handlers /\ NotIgnored(handlers[h])) ~> Answered(h)
        /\ [](Answered(h) => [](Answered(h)))
        /\ [](h \in DOMAIN handlers =>
                 /\ Len(handlers[h].replied) <= 1
                 /\ handlers[h].replied # <<>> =>
                       /\ NotIgnored(handlers[h])
                       /\ handlers[h].replied[1] \in ReplyKinds(handlers[h]))

\* an ignored message without a reply beside a message answered by the apology
C32_Witness ==
    \E h \in DOMAIN handlers, g \in DOMAIN handlers :
        /\ ~NotIgnored(handlers[g])
        /\ handlers[g].replied = <<>>
        /\ Answered(h)
        /\ handlers[h].replied = <<APOLOGY>>

\* C33: every loaded course is in the eligible subset shown to the backend
\* or in a state the hard rule covers, so that no message that directly
\* mentions the title of a course reaches the backend with that course
\* missing from the catalog context.
C33_EligibleOrHardRule ==
    [][\A h \in DOMAIN handlers' :
          LET m == handlers'[h]
              text == trimOf(m.body)
          IN  /\ \A i \in DOMAIN cursos :
                    \/ \E j \in DOMAIN cursosExhibibles(variant, cursos) :
                          cursosExhibibles(variant, cursos)[j] = cursos[i]
                    \/ cursos[i].estado \in HARD_STATES(variant)
              /\ (Arrives(h) /\ m.path = "gen") =>
                    \A i \in DOMAIN cursos :
                        mentionOf(text, cursos[i].titulo) =>
                            \E j \in DOMAIN m.messages[3].content :
                                m.messages[3].content[j] = cursos[i]]_vars

\* the first position of a set of catalog positions
FirstOf(P) == CHOOSE i \in P : \A j \in P : i <= j

\* C34: when a message directly mentions the titles of several courses in a
\* closed state and gets the templated reply, the reply names the first of
\* them in catalog order and is the template of the state of that course.
C34_FirstClosedCourse ==
    [][\A h \in DOMAIN handlers' :
          LET m == handlers'[h]
              text == trimOf(m.body)
          IN  (Arrives(h) /\ m.path = "rule1" /\ Cardinality(ClosedMentions(text)) > 1) =>
                 /\ Includes(m.out, <<"*">> \o cursos[FirstOf(ClosedMentions(text))].titulo \o <<"*">>)
                 /\ Includes(m.out, <<"y", "a", " ", "f", "i", "n", "a", "l", "i", "z", "ó">>) <=>
                       cursos[FirstOf(ClosedMentions(text))].estado = FINALIZADO]_vars

\* C35: the serialization of the catalog context has at most 18,000
\* characters, whatever the catalog.
C35_ContextBounded ==
    Called("contextoCursos") => SerializedLen(call.result) <= MAX_CONTEXT_CHARS

\* the context is the whole eligible list or its first 40 courses, and it is
\* within the budget when the whole list is
C35_ContextRule ==
    Called("contextoCursos") =>
        /\ \/ call.result = cursosExhibibles(variant, cursos)
           \/ /\ Len(call.result) = MAX_CONTEXT_COURSES
              /\ call.result = SubSeq(cursosExhibibles(variant, cursos), 1, MAX_CONTEXT_COURSES)
        /\ SerializedLen(cursosExhibibles(variant, cursos)) <= MAX_CONTEXT_CHARS =>
              SerializedLen(call.result) <= MAX_CONTEXT_CHARS

\* a context of 40 courses cut from a longer list
C35_Truncated ==
    /\ Called("contextoCursos")
    /\ Len(call.result) = MAX_CONTEXT_COURSES
    /\ Len(cursosExhibibles(variant, cursos)) > MAX_CONTEXT_COURSES

\* the number of distinct tokens the normalized texts a and b have in common
SharedTokens(a, b) == Cardinality(TokenSet(a) \cap TokenSet(b))

\* a title or a query that normalizes to the empty text is never a mention
EmptyNeverMentions ==
    (normalize(call.args[1]) = <<>> \/ normalize(call.args[2]) = <<>>) => call.result = FALSE

\* C36, as stated: whenever isDirectTitleMention(query, title) is true and the
\* normalized query does not contain the normalized title, the query and the
\* title share at least two distinct tokens; and a title or a query that
\* normalizes to empty never yields a direct mention.
C36_TwoSharedTokens ==
    Called("isDirectTitleMention") =>
        /\ (call.result /\ ~Includes(normalize(call.args[1]), normalize(call.args[2]))) =>
              SharedTokens(call.args[1], call.args[2]) >= 2
        /\ EmptyNeverMentions

\* C36, amended: whenever isDirectTitleMention(query, title) is true and the
\* normalized query does not contain the normalized title, the query and the
\* title share at least two distinct tokens or are made of the very same
\* tokens (one word, repeated more often in the title); and a title or a
\* query that normalizes to empty never yields a direct mention.
C36_TwoSharedOrSameTokens ==
    Called("isDirectTitleMention") =>
        /\ (call.result /\ ~Includes(normalize(call.args[1]), normalize(call.args[2]))) =>
              \/ SharedTokens(call.args[1], call.args[2]) >= 2
              \/ TokenSet(call.args[1]) = TokenSet(call.args[2])
        /\ EmptyNeverMentions

\* a mention by one shared word: the query is the single word of a title
\* that repeats it
C36_Witness ==
    /\ Called("isDirectTitleMention")
    /\ call.result = TRUE
    /\ ~Includes(normalize(call.args[1]), normalize(call.args[2]))
    /\ SharedTokens(call.args[1], call.args[2]) = 1
====
